---- MODULE Spec2Model ----
(***************************************************************************)
(* Model of the OCR Sudoku solver: the backtracking solver and the rule    *)
(* validators of sudoku_solver.py, the conflict validation and the         *)
(* reassessment pass of ocr_processor.py, and the /solve endpoint of       *)
(* main.py.                                                                *)
(*                                                                         *)
(* A grid is a Python list of 9 lists of 9 ints: here a 9-tuple of         *)
(* 9-tuples.  Rows and columns keep the source's 0-based numbering:        *)
(* grid[row][col] of the source is grid[row+1][col+1] here.                *)
(***************************************************************************)
EXTENDS Integers, Sequences, FiniteSets, TLC

VARIABLES
  pc,        \* position of the running top-level operation
  op,        \* the top-level operation that was called
  arg,       \* the grid the caller passed, as it was at the call
  heap,      \* the list objects: the caller's grid and the copies made of it
  ref,       \* the object the running solve() call was given
  stack,     \* the active frames of solve() / solve_recursive()
  ret,       \* the value a frame has just returned to its caller
  visits,    \* invocations of solve() / solve_recursive() so far (iterations)
  steps,     \* solve_with_steps: the snapshots recorded
  ceiling,   \* solve_with_steps: the ceiling of `if iterations > 100000`
  first,     \* what the first of two calls returned and left
  calls,     \* how many times the operation has been called on the grid
  out,       \* what the operation returned
  validation,          \* the result dict of validate_ocr_result
  first_pass,          \* the detections the first pass of process_cells made
  detections,          \* the 9x9 list of CellDetection
  conflicts,           \* validate_and_reassess: the list the for loop runs over
  idx,                 \* validate_and_reassess: the index of the next conflict
  original_conflicts,  \* validate_and_reassess: the copy kept for the report
  self_conflicts,      \* the attribute self.validation_conflicts
  ocr_result           \* the dict process_image returned

callVars == <<op, arg, first, calls>>

solverVars == <<ref, stack, ret, visits, steps, ceiling>>

ocrVars == <<first_pass, detections, conflicts, idx, original_conflicts,
             self_conflicts, ocr_result>>

vars == <<pc, callVars, heap, solverVars, out, validation, ocrVars>>

----------------------------------------------------------------------------
(* Grids *)

N == 0..8

Digits == 1..9

Cell(grid, row, col) == grid[row + 1][col + 1]

\* grid[row][col] = v
Put(grid, row, col, v) == [grid EXCEPT ![row + 1][col + 1] = v]

\* [row[:] for row in grid]
CopyGrid(grid) == [r \in 1..9 |-> [c \in 1..9 |-> grid[r][c]]]

EmptyGrid == [r \in 1..9 |-> [c \in 1..9 |-> 0]]

\* detected_grid of main() in sudoku_solver.py, the 38-clue scenario
Puzzle38 ==
  << <<3, 0, 5, 0, 0, 0, 1, 0, 8>>,
     <<0, 9, 0, 0, 5, 1, 7, 2, 0>>,
     <<0, 7, 0, 2, 3, 0, 6, 4, 5>>,
     <<0, 0, 7, 0, 4, 2, 0, 8, 1>>,
     <<0, 8, 0, 0, 0, 0, 9, 0, 0>>,
     <<1, 0, 9, 0, 0, 0, 0, 7, 0>>,
     <<0, 3, 2, 4, 0, 8, 5, 1, 7>>,
     <<0, 1, 0, 0, 0, 5, 4, 0, 0>>,
     <<6, 0, 0, 0, 9, 0, 8, 0, 0>> >>

\* A complete grid obeying the rules (it completes Puzzle38): the base of
\* the bounded family of input grids.
BaseGrid ==
  << <<3, 2, 5, 6, 7, 4, 1, 9, 8>>,
     <<4, 9, 6, 8, 5, 1, 7, 2, 3>>,
     <<8, 7, 1, 2, 3, 9, 6, 4, 5>>,
     <<5, 6, 7, 9, 4, 2, 3, 8, 1>>,
     <<2, 8, 3, 7, 1, 6, 9, 5, 4>>,
     <<1, 4, 9, 5, 8, 3, 2, 7, 6>>,
     <<9, 3, 2, 4, 6, 8, 5, 1, 7>>,
     <<7, 1, 8, 3, 2, 5, 4, 6, 9>>,
     <<6, 5, 4, 1, 9, 7, 8, 3, 2>> >>

----------------------------------------------------------------------------
(* Bounds of the input family *)

\* at most this many cells of BaseGrid are blanked in an input grid
MaxBlanks == 4

\* the cells that may be blanked: (1,4),(1,8),(2,4),(2,8) hold 5,3 / 3,5 in
\* BaseGrid, so blanking all four leaves two completions
BlankCells == {<<0, 0>>, <<1, 4>>, <<1, 8>>, <<2, 4>>, <<2, 8>>}

\* the cell that may be overwritten with any value 0..9, and duplicate a digit
PokeCell == <<0, 1>>

PokeValues == 0..9

\* a validator is called at most this many times in a row on the same grid
MaxCalls == 2

RECURSIVE BlankAll(_, _)
BlankAll(grid, cells) ==
  IF cells = {} THEN grid
  ELSE LET p == CHOOSE q \in cells : TRUE
       IN BlankAll(Put(grid, p[1], p[2], 0), cells \ {p})

FamilyGrids ==
  { Put(BlankAll(BaseGrid, B), PokeCell[1], PokeCell[2], v) :
      B \in {X \in SUBSET BlankCells : Cardinality(X) <= MaxBlanks},
      v \in PokeValues \cup {Cell(BaseGrid, PokeCell[1], PokeCell[2])} }

\* the grids passed to SudokuSolver.solve and to the validators
SolveInputs == FamilyGrids \cup {EmptyGrid, Puzzle38}

\* the grids passed to solve_with_steps
StepsInputs == FamilyGrids \cup {Puzzle38}

----------------------------------------------------------------------------
(* SudokuSolver.is_valid *)

\* is_valid without the check of the 3x3 box
is_valid_NoBox(grid, row, col, num) ==
  /\ \A j \in N : Cell(grid, row, j) # num
  /\ \A i \in N : Cell(grid, i, col) # num

\* is_valid without the check of the column
is_valid_NoCol(grid, row, col, num) ==
  /\ \A j \in N : Cell(grid, row, j) # num
  /\ \A a \in 0..2, b \in 0..2 :
       Cell(grid, 3 * (row \div 3) + a, 3 * (col \div 3) + b) # num

is_valid(grid, row, col, num) ==
  /\ \A j \in N : Cell(grid, row, j) # num
  /\ \A i \in N : Cell(grid, i, col) # num
  /\ LET box_row == (row \div 3) * 3
         box_col == (col \div 3) * 3
     IN \A i \in box_row..(box_row + 2) : \A j \in box_col..(box_col + 2) :
           Cell(grid, i, j) # num

----------------------------------------------------------------------------
(* SudokuSolver.validate_puzzle.  The grid is threaded through the two     *)
(* loops, since the source writes 0 into each filled cell and writes its   *)
(* number back.  An error message "Conflict at (i,j) with digit num" is    *)
(* the triple <<i, j, num>>.                                               *)

\* The loops below hand each iteration the state s the one before left:
\* CHOOSE r \in {F(s) : s \in {v}} : TRUE is F(v), with v evaluated first.

\* ValidateCell without `grid[i][j] = num` after the check
ValidateCell_NoRestore(grid, errors, i, j) ==
  IF Cell(grid, i, j) # 0
  THEN LET num == Cell(grid, i, j)
           removed == Put(grid, i, j, 0)
           errs == IF ~is_valid(removed, i, j, num)
                   THEN Append(errors, <<i, j, num>>) ELSE errors
       IN [grid |-> removed, errors |-> errs]
  ELSE [grid |-> grid, errors |-> errors]

\* one iteration of the loop body at (i, j): [grid, errors] afterwards
ValidateCell(grid, errors, i, j) ==
  IF Cell(grid, i, j) # 0
  THEN LET num == Cell(grid, i, j)
           removed == Put(grid, i, j, 0)
           errs == IF ~is_valid(removed, i, j, num)
                   THEN Append(errors, <<i, j, num>>) ELSE errors
       IN [grid |-> Put(removed, i, j, num), errors |-> errs]
  ELSE [grid |-> grid, errors |-> errors]

\* for j in range(9), from j on, in row i
RECURSIVE ValidateRow(_, _, _, _)
ValidateRow(grid, errors, i, j) ==
  IF j > 8 THEN [grid |-> grid, errors |-> errors]
  ELSE CHOOSE r \in {ValidateRow(s.grid, s.errors, i, j + 1) :
                      s \in {ValidateCell(grid, errors, i, j)}} : TRUE

\* for i in range(9), from i on
RECURSIVE ValidateRows(_, _, _)
ValidateRows(grid, errors, i) ==
  IF i > 8 THEN [grid |-> grid, errors |-> errors]
  ELSE CHOOSE r \in {ValidateRows(s.grid, s.errors, i + 1) :
                      s \in {ValidateRow(grid, errors, i, 0)}} : TRUE

\* the grid as the call leaves it, and the pair it returns
validate_puzzle(grid) ==
  LET s == ValidateRows(grid, <<>>, 0)
  IN [grid |-> s.grid, is_valid |-> Len(s.errors) = 0, errors |-> s.errors]

\* SudokuSolver.get_candidates
get_candidates(grid, row, col) ==
  IF Cell(grid, row, col) # 0 THEN <<>>
  ELSE LET ok == {num \in 1..9 : is_valid(grid, row, col, num)}
       IN [x \in 1..Cardinality(ok) |->
             CHOOSE num \in ok : Cardinality({m \in ok : m < num}) = x - 1]

----------------------------------------------------------------------------
(* OCRProcessor.is_valid_placement, get_conflict_type and                  *)
(* find_sudoku_conflicts: each returns [grid, ...], the grid being the     *)
(* list as the call leaves it (both clear grid[row][col] and write the     *)
(* saved value back on every return path).                                 *)

RowHas(grid, row, digit) == \E j \in N : Cell(grid, row, j) = digit

ColHas(grid, col, digit) == \E i \in N : Cell(grid, i, col) = digit

BoxHas(grid, row, col, digit) ==
  LET box_row == 3 * (row \div 3)
      box_col == 3 * (col \div 3)
  IN \E i \in box_row..(box_row + 2) : \E j \in box_col..(box_col + 2) :
        Cell(grid, i, j) = digit

is_valid_placement(grid, row, col, digit) ==
  LET original == Cell(grid, row, col)
      cleared == Put(grid, row, col, 0)
      restored == Put(cleared, row, col, original)
  IN IF RowHas(cleared, row, digit) THEN [grid |-> restored, result |-> FALSE]
     ELSE IF ColHas(cleared, col, digit) THEN [grid |-> restored, result |-> FALSE]
     ELSE IF BoxHas(cleared, row, col, digit) THEN [grid |-> restored, result |-> FALSE]
     ELSE [grid |-> restored, result |-> TRUE]

\* get_conflict_type looking at the box before the column
get_conflict_type_BoxFirst(grid, row, col, digit) ==
  LET original == Cell(grid, row, col)
      cleared == Put(grid, row, col, 0)
      restored == Put(cleared, row, col, original)
  IN IF RowHas(cleared, row, digit) THEN [grid |-> restored, result |-> "row"]
     ELSE IF BoxHas(cleared, row, col, digit) THEN [grid |-> restored, result |-> "box"]
     ELSE IF ColHas(cleared, col, digit) THEN [grid |-> restored, result |-> "column"]
     ELSE [grid |-> restored, result |-> "unknown"]

get_conflict_type(grid, row, col, digit) ==
  LET original == Cell(grid, row, col)
      cleared == Put(grid, row, col, 0)
      restored == Put(cleared, row, col, original)
  IN IF RowHas(cleared, row, digit) THEN [grid |-> restored, result |-> "row"]
     ELSE IF ColHas(cleared, col, digit) THEN [grid |-> restored, result |-> "column"]
     ELSE IF BoxHas(cleared, row, col, digit) THEN [grid |-> restored, result |-> "box"]
     ELSE [grid |-> restored, result |-> "unknown"]

\* one iteration of the loop body of find_sudoku_conflicts at (row, col)
ConflictCell(grid, found, row, col) ==
  LET digit == Cell(grid, row, col) IN
  IF digit = 0 THEN [grid |-> grid, conflicts |-> found]
  ELSE LET p == is_valid_placement(grid, row, col, digit) IN
       IF p.result THEN [grid |-> p.grid, conflicts |-> found]
       ELSE LET t == get_conflict_type(p.grid, row, col, digit)
            IN [grid |-> t.grid,
                conflicts |-> Append(found,
                   [row |-> row, col |-> col, value |-> digit,
                    conflict_type |-> t.result])]

\* for col in range(9), from col on, in row `row`
RECURSIVE ConflictsRow(_, _, _, _)
ConflictsRow(grid, found, row, col) ==
  IF col > 8 THEN [grid |-> grid, conflicts |-> found]
  ELSE CHOOSE r \in {ConflictsRow(s.grid, s.conflicts, row, col + 1) :
                      s \in {ConflictCell(grid, found, row, col)}} : TRUE

\* for row in range(9), from row on
RECURSIVE ConflictsRows(_, _, _)
ConflictsRows(grid, found, row) ==
  IF row > 8 THEN [grid |-> grid, conflicts |-> found]
  ELSE CHOOSE r \in {ConflictsRows(s.grid, s.conflicts, row + 1) :
                      s \in {ConflictsRow(grid, found, row, 0)}} : TRUE

find_sudoku_conflicts(grid) == ConflictsRows(grid, <<>>, 0)

----------------------------------------------------------------------------
(* SudokuSolver.solve, one frame per invocation.                           *)
(* A frame is [i, j, num]: the empty cell the two for loops stopped at and *)
(* the value of the loop variable num; i = 9 when the loops found no       *)
(* empty cell (the frame is at the final `return True`).                   *)

CellAt(grid, k) == Cell(grid, k \div 9, k % 9)

HasEmpty(grid) == \E k \in 0..80 : CellAt(grid, k) = 0

\* the first (i, j) in the order of `for i in range(9): for j in range(9)`
\* with grid[i][j] == 0, as 9*i + j
FirstEmpty(grid) ==
  CHOOSE k \in 0..80 : CellAt(grid, k) = 0 /\ \A m \in 0..(k - 1) : CellAt(grid, m) # 0

\* if iterations > 100000, of solve_recursive
MAX_ITERATIONS == 100000

\* the frame of a new invocation on grid: at the empty cell the loops stop
\* at, or with i = 9 when they find none; i = 10 is solve_recursive giving
\* up at once because iterations is over the ceiling
NewFrame(grid, aborted) ==
  IF aborted THEN [i |-> 10, j |-> 10, num |-> 1]
  ELSE IF HasEmpty(grid)
  THEN LET k == FirstEmpty(grid) IN [i |-> k \div 9, j |-> k % 9, num |-> 1]
  ELSE [i |-> 9, j |-> 9, num |-> 1]

\* Enter recording the snapshot before it looks at the counter
Enter_SnapshotFirst(o, below, grid) ==
  /\ visits' = visits + 1
  /\ ceiling' = ceiling
  /\ IF o = "solve_with_steps"
     THEN /\ stack' = Append(below, NewFrame(grid, visits' > ceiling))
          /\ steps' = Append(steps, CopyGrid(grid))
     ELSE /\ stack' = Append(below, NewFrame(grid, FALSE))
          /\ steps' = steps

\* An invocation on grid from the frames below: solve() has no counter in the
\* source (visits counts its invocations for the model); solve_recursive does
\* iterations += 1, returns False when iterations > 100000, and otherwise
\* appends a copy of the grid to steps.  The literal 100000 is the value of
\* ceiling in every run of the program; the runs that are parameterised by
\* the ceiling start with a smaller one.
Enter(o, below, grid) ==
  /\ visits' = visits + 1
  /\ ceiling' = ceiling
  /\ IF o = "solve_with_steps"
     THEN /\ stack' = Append(below, NewFrame(grid, visits' > ceiling))
          /\ steps' = IF visits' > ceiling THEN steps
                       ELSE Append(steps, CopyGrid(grid))
     ELSE /\ stack' = Append(below, NewFrame(grid, FALSE))
          /\ steps' = steps

Top == stack[Len(stack)]

Pop == SubSeq(stack, 1, Len(stack) - 1)

SetTop(f) == [stack EXCEPT ![Len(stack)] = f]

G == heap[ref]

\* the least num in from..9 that is_valid accepts at (i, j); 10 when the
\* for loop over num runs out
\* NextValid with the loop running over range(1, 9)
NextValid_Upto8(grid, i, j, from) ==
  IF \E n \in from..8 : is_valid(grid, i, j, n)
  THEN CHOOSE n \in from..8 :
         is_valid(grid, i, j, n) /\ \A m \in from..(n - 1) : ~is_valid(grid, i, j, m)
  ELSE 10

\* NextValid taking the last digit is_valid accepts, not the first
NextValid_Largest(grid, i, j, from) ==
  IF \E n \in from..9 : is_valid(grid, i, j, n)
  THEN CHOOSE n \in from..9 :
         is_valid(grid, i, j, n) /\ \A m \in (n + 1)..9 : ~is_valid(grid, i, j, m)
  ELSE 10

NextValid(grid, i, j, from) ==
  IF \E n \in from..9 : is_valid(grid, i, j, n)
  THEN CHOOSE n \in from..9 :
         is_valid(grid, i, j, n) /\ \A m \in from..(n - 1) : ~is_valid(grid, i, j, m)
  ELSE 10

\* SolveTry with the assignment made to grid[j][i]
SolveTry_Transposed ==
  /\ pc = "solve" /\ ret = "none" /\ stack # <<>>
  /\ Top.i # 9
  /\ LET n == IF Top.i = 10 THEN 10 ELSE NextValid(G, Top.i, Top.j, Top.num) IN
       IF n <= 9
       THEN /\ heap' = [heap EXCEPT ![ref] = Put(@, Top.j, Top.i, n)]
            /\ Enter(op, SetTop([Top EXCEPT !.num = n]), heap'[ref])
            /\ ret' = "none"
       ELSE /\ stack' = Pop
            /\ ret' = "False"
            /\ UNCHANGED <<heap, visits, steps, ceiling>>
  /\ UNCHANGED <<pc, callVars, ref, out, validation, ocrVars>>

\* SolveTry without the assignment grid[i][j] = num before the recursive call
SolveTry_NoWrite ==
  /\ pc = "solve" /\ ret = "none" /\ stack # <<>>
  /\ Top.i # 9
  /\ LET n == IF Top.i = 10 THEN 10 ELSE NextValid(G, Top.i, Top.j, Top.num) IN
       IF n <= 9
       THEN /\ heap' = heap
            /\ Enter(op, SetTop([Top EXCEPT !.num = n]), heap'[ref])
            /\ ret' = "none"
       ELSE /\ stack' = Pop
            /\ ret' = "False"
            /\ UNCHANGED <<heap, visits, steps, ceiling>>
  /\ UNCHANGED <<pc, callVars, ref, out, validation, ocrVars>>

\* for num in range(1, 10): if self.is_valid(grid, i, j, num): grid[i][j] = num;
\* self.solve(grid)  -- the loop runs on from Top.num to the next num that
\* is_valid accepts and calls solve, or runs out: return False.  A frame of
\* solve_recursive over the ceiling (i = 10) returns False at once.
SolveTry ==
  /\ pc = "solve" /\ ret = "none" /\ stack # <<>>
  /\ Top.i # 9
  /\ LET n == IF Top.i = 10 THEN 10 ELSE NextValid(G, Top.i, Top.j, Top.num) IN
       IF n <= 9
       THEN /\ heap' = [heap EXCEPT ![ref] = Put(@, Top.i, Top.j, n)]
            /\ Enter(op, SetTop([Top EXCEPT !.num = n]), heap'[ref])
            /\ ret' = "none"
       ELSE /\ stack' = Pop
            /\ ret' = "False"
            /\ UNCHANGED <<heap, visits, steps, ceiling>>
  /\ UNCHANGED <<pc, callVars, ref, out, validation, ocrVars>>

\* no empty cell: the final return True
SolveFull ==
  /\ pc = "solve" /\ ret = "none" /\ stack # <<>>
  /\ Top.i = 9
  /\ stack' = Pop
  /\ ret' = "True"
  /\ UNCHANGED <<pc, callVars, heap, ref, visits, steps, ceiling, out, validation, ocrVars>>

\* if self.solve(grid): return True
SolveReturnTrue ==
  /\ pc = "solve" /\ ret = "True" /\ stack # <<>>
  /\ stack' = Pop
  /\ UNCHANGED <<pc, callVars, heap, ref, ret, visits, steps, ceiling, out, validation, ocrVars>>

\* SolveBacktrack without the reset grid[i][j] = 0
SolveBacktrack_NoReset ==
  /\ pc = "solve" /\ ret = "False" /\ stack # <<>>
  /\ heap' = heap
  /\ stack' = SetTop([Top EXCEPT !.num = @ + 1])
  /\ ret' = "none"
  /\ UNCHANGED <<pc, callVars, ref, visits, steps, ceiling, out, validation, ocrVars>>

\* SolveBacktrack returning False after the first num that failed
SolveBacktrack_GiveUp ==
  /\ pc = "solve" /\ ret = "False" /\ stack # <<>>
  /\ heap' = [heap EXCEPT ![ref] = Put(@, Top.i, Top.j, 0)]
  /\ stack' = SetTop([Top EXCEPT !.num = 10])
  /\ ret' = "none"
  /\ UNCHANGED <<pc, callVars, ref, visits, steps, ceiling, out, validation, ocrVars>>

\* the recursive call returned False: grid[i][j] = 0 and the next num
SolveBacktrack ==
  /\ pc = "solve" /\ ret = "False" /\ stack # <<>>
  /\ heap' = [heap EXCEPT ![ref] = Put(@, Top.i, Top.j, 0)]
  /\ stack' = SetTop([Top EXCEPT !.num = @ + 1])
  /\ ret' = "none"
  /\ UNCHANGED <<pc, callVars, ref, visits, steps, ceiling, out, validation, ocrVars>>

----------------------------------------------------------------------------
(* The callers of the solver and of the validators *)

NoGrid == <<>>

\* no value yet: out, first, validation and ocr_result hold records (the
\* value solve() returns is out.result, the list find_sudoku_conflicts
\* returns is out.conflicts)
None == [none |-> TRUE]

Heap0 == [grid |-> NoGrid, test_grid |-> NoGrid, solution_grid |-> NoGrid,
          working_grid |-> NoGrid, current_grid |-> NoGrid]

\* solver.solve(grid) on the caller's own grid; a second run is made on an
\* equal input grid
CallSolve ==
  /\ op' = "solve"
  /\ \/ /\ pc = "idle"
        /\ \E g \in SolveInputs : arg' = g
        /\ calls' = 1
        /\ first' = None
     \/ /\ pc = "done" /\ op = "solve" /\ calls < MaxCalls
        /\ arg' = arg
        /\ calls' = calls + 1
        /\ first' = IF calls = 1 THEN [out |-> out, grid |-> heap.grid] ELSE first
  /\ heap' = [Heap0 EXCEPT !.grid = arg']
  /\ stack' = <<NewFrame(arg', FALSE)>>
  /\ pc' = "solve" /\ ref' = "grid"
  /\ ret' = "none" /\ visits' = 1
  /\ UNCHANGED <<steps, ceiling, out, validation, ocrVars>>

\* the outermost solve() returned to the caller of CallSolve
SolveDone ==
  /\ pc = "solve" /\ op = "solve" /\ stack = <<>> /\ ret # "none"
  /\ pc' = "done"
  /\ out' = [result |-> (ret = "True")]
  /\ UNCHANGED <<callVars, heap, solverVars, validation, ocrVars>>

\* solver.validate_puzzle(grid) on the caller's own grid; a second call is
\* made on the grid the first one left
CallValidatePuzzle ==
  /\ op' = "validate_puzzle"
  /\ \/ /\ pc = "idle"
        /\ \E g \in SolveInputs :
             /\ arg' = g
             /\ heap' = [Heap0 EXCEPT !.grid = validate_puzzle(g).grid]
        /\ calls' = 1
        /\ first' = None
     \/ /\ pc = "done" /\ op = "validate_puzzle" /\ calls < MaxCalls
        /\ arg' = arg
        /\ heap' = [heap EXCEPT !.grid = validate_puzzle(@).grid]
        /\ calls' = calls + 1
        /\ first' = IF calls = 1 THEN [out |-> out, grid |-> heap.grid] ELSE first
  /\ out' = LET v == validate_puzzle(IF pc = "idle" THEN arg' ELSE heap.grid)
            IN [is_valid |-> v.is_valid, errors |-> v.errors]
  /\ pc' = "done"
  /\ UNCHANGED <<solverVars, validation, ocrVars>>

\* ocr_processor.find_sudoku_conflicts(grid), likewise
CallFindConflicts ==
  /\ op' = "find_sudoku_conflicts"
  /\ \/ /\ pc = "idle"
        /\ \E g \in SolveInputs :
             /\ arg' = g
             /\ heap' = [Heap0 EXCEPT !.grid = find_sudoku_conflicts(g).grid]
        /\ calls' = 1
        /\ first' = None
     \/ /\ pc = "done" /\ op = "find_sudoku_conflicts" /\ calls < MaxCalls
        /\ arg' = arg
        /\ heap' = [heap EXCEPT !.grid = find_sudoku_conflicts(@).grid]
        /\ calls' = calls + 1
        /\ first' = IF calls = 1 THEN [out |-> out, grid |-> heap.grid] ELSE first
  /\ out' = [conflicts |->
               find_sudoku_conflicts(IF pc = "idle" THEN arg' ELSE heap.grid).conflicts]
  /\ pc' = "done"
  /\ UNCHANGED <<solverVars, validation, ocrVars>>

\* CallSolveWithSteps with working_grid = grid, the caller's own list
CallSolveWithSteps_NoCopy ==
  /\ op' = "solve_with_steps"
  /\ pc = "idle"
  /\ \E g \in StepsInputs :
       /\ arg' = g
       /\ heap' = [Heap0 EXCEPT !.grid = g]
  /\ Enter("solve_with_steps", <<>>, heap'.grid)
  /\ pc' = "solve" /\ ref' = "grid"
  /\ ret' = "none" /\ calls' = 1
  /\ UNCHANGED <<first, out, validation, ocrVars>>

\* solver.solve_with_steps(grid): working_grid = [row[:] for row in grid],
\* steps = [], iterations = 0, and the first solve_recursive(working_grid)
CallSolveWithSteps ==
  /\ op' = "solve_with_steps"
  /\ pc = "idle"
  /\ \E g \in StepsInputs :
       /\ arg' = g
       /\ heap' = [Heap0 EXCEPT !.grid = g, !.working_grid = CopyGrid(g)]
  /\ Enter("solve_with_steps", <<>>, heap'.working_grid)
  /\ pc' = "solve" /\ ref' = "working_grid"
  /\ ret' = "none" /\ calls' = 1
  /\ UNCHANGED <<first, out, validation, ocrVars>>

\* return success, steps, iterations
SolveWithStepsDone ==
  /\ pc = "solve" /\ op = "solve_with_steps" /\ stack = <<>> /\ ret # "none"
  /\ pc' = "done"
  /\ out' = [success |-> (ret = "True"), steps |-> steps, iterations |-> visits]
  /\ UNCHANGED <<callVars, heap, solverVars, validation, ocrVars>>

----------------------------------------------------------------------------
(* SudokuValidator.validate_ocr_result and suggest_corrections *)

\* the suggestion for one error; test_grid is a copy of grid
Suggestion(grid, error) ==
  LET row == error[1]
      col == error[2]
      digit == error[3]
      test_grid == Put(CopyGrid(grid), row, col, 0)
  IN [position |-> <<row, col>>, current_digit |-> digit,
      suggested_digits |-> get_candidates(test_grid, row, col), error |-> error]

suggest_corrections(grid, errors) ==
  [x \in 1..Len(errors) |-> Suggestion(grid, errors[x])]

\* sum(1 for row in detected_grid for cell in row if cell != 0)
FilledCells(grid) == Cardinality({k \in 0..80 : CellAt(grid, k) # 0})

\* The part of validate_ocr_result before self.solver.solve(test_grid), on
\* the object heap[g]: the result dict so far (solvable and confidence still
\* at their initial values) and the copy test_grid handed to solve.
\* confidence counts seventeenths: min(1.0, filled_cells / 17) is
\* Min(17, filled_cells), and 1.0 is 17.
StartValidateOcrResult(h) ==
  LET v == validate_puzzle(h.grid)
      detected_grid == v.grid
  IN /\ heap' = [h EXCEPT !.grid = detected_grid,
                          !.test_grid = CopyGrid(detected_grid)]
     /\ validation' =
          [is_valid |-> v.is_valid, errors |-> v.errors,
           suggestions |-> IF ~v.is_valid
                           THEN suggest_corrections(detected_grid, v.errors)
                           ELSE <<>>,
           confidence |-> 0, solvable |-> FALSE]
     /\ stack' = <<NewFrame(heap'.test_grid, FALSE)>>
     /\ ref' = "test_grid" /\ ret' = "none" /\ visits' = 1
     /\ pc' = "solve"

\* validator.validate_ocr_result(detected_grid) called on its own
CallValidateOcrResult ==
  /\ op' = "validate_ocr_result"
  /\ pc = "idle"
  /\ \E g \in SolveInputs :
       /\ arg' = g
       /\ StartValidateOcrResult([Heap0 EXCEPT !.grid = g])
  /\ calls' = 1
  /\ UNCHANGED <<steps, ceiling, first, out, ocrVars>>

\* self.solver.solve(test_grid) returned: solvable, confidence, return result
ValidateOcrResultReturn ==
  /\ pc = "solve" /\ ref = "test_grid" /\ stack = <<>> /\ ret # "none"
  /\ LET solvable == (ret = "True")
         filled_cells == FilledCells(heap.grid)
     IN validation' =
          [validation EXCEPT
             !.solvable = solvable,
             !.confidence = IF validation.is_valid /\ solvable THEN 17
                            ELSE IF filled_cells < 17 THEN filled_cells ELSE 17]
  /\ IF op = "validate_ocr_result"
     THEN pc' = "done" /\ out' = validation'
     ELSE pc' = "validated" /\ out' = out
  /\ UNCHANGED <<callVars, heap, solverVars, ocrVars>>

----------------------------------------------------------------------------
(* OCRProcessor.process_cells: the first pass.  The recognizers are        *)
(* external; what they return for a cell is drawn from small sets.  A      *)
(* confidence is a float in [0, 1] in the source and counts thousandths    *)
(* here: 0.8 is 800.                                                       *)

\* if detection.confidence < 0.8, of validate_and_reassess
REASSESS_THRESHOLD == 800

\* the first-pass confidence of a cell read with doubt, just under 0.8
LowConf == REASSESS_THRESHOLD - 1

\* the first-pass confidence of every other digit: exactly 0.8
HighConf == REASSESS_THRESHOLD

\* at most this many cells are read with doubt in the first pass
MaxLow == 4

\* the values the first pass may read at PokeCell are 0..MaxOcrPoke
MaxOcrPoke == 3

\* the grids the first pass may read
OcrGrids ==
  {Put(BaseGrid, PokeCell[1], PokeCell[2], v) : v \in 0..MaxOcrPoke}
    \cup {EmptyGrid, Puzzle38}

ConflictCells(grid) ==
  LET c == find_sudoku_conflicts(grid).conflicts
  IN {<<c[x].row, c[x].col>> : x \in 1..Len(c)}

\* the cells that may be read with doubt: those that break a rule, and (4,4)
LowCells(grid) == ConflictCells(grid) \cup {<<4, 4>>}

\* CellDetection(digit, confidence, sources, (i, j)) of the first pass
FirstDetection(grid, low, i, j) ==
  IF Cell(grid, i, j) = 0
  THEN [digit |-> 0, confidence |-> 1000, sources |-> <<"empty_detection">>,
        position |-> <<i, j>>]
  ELSE [digit |-> Cell(grid, i, j),
        confidence |-> IF <<i, j>> \in low THEN LowConf ELSE HighConf,
        sources |-> <<"easyocr">>, position |-> <<i, j>>]

FirstPass(grid, low) ==
  [r \in 1..9 |-> [c \in 1..9 |-> FirstDetection(grid, low, r - 1, c - 1)]]

\* [[det.digit for det in row] for row in detections]
DigitsOf(dets) ==
  LET digits(r) == <<dets[r][1].digit, dets[r][2].digit, dets[r][3].digit,
                     dets[r][4].digit, dets[r][5].digit, dets[r][6].digit,
                     dets[r][7].digit, dets[r][8].digit, dets[r][9].digit>>
  IN <<digits(1), digits(2), digits(3), digits(4), digits(5), digits(6),
       digits(7), digits(8), digits(9)>>

\* what a recognizer may return on a cell under reassessment: (0, 0.0) or a
\* digit with a confidence (recognize_digit_template returns a digit only
\* above 0.5, enhanced_digit_recovery only above 0.3)
RecDigits == {1, 2, 3}

EasyOutputs == {<<0, 0>>} \cup (RecDigits \X {700})

TemplateOutputs == {<<0, 0>>} \cup (RecDigits \X {600, 700})

EnhancedOutputs == {<<0, 0>>} \cup (RecDigits \X {400})

----------------------------------------------------------------------------
(* OCRProcessor.reassess_conflicted_digit and validate_and_reassess *)

\* the candidates list: easyocr, template, enhanced_recovery, in this
\* order, each only when its digit is not 0
Candidates(easy, template, enhanced) ==
  (IF easy[1] # 0 THEN << <<easy[1], easy[2], "easyocr">> >> ELSE <<>>)
  \o (IF template[1] # 0 THEN << <<template[1], template[2], "template">> >> ELSE <<>>)
  \o (IF enhanced[1] # 0
      THEN << <<enhanced[1], enhanced[2], "enhanced_recovery">> >> ELSE <<>>)

\* for digit, conf, source in candidates: if self.is_valid_placement(...),
\* from candidate x on: [grid, valid_candidates]
RECURSIVE FilterFrom(_, _, _, _, _, _)
FilterFrom(grid, candidates, valid_candidates, row, col, x) ==
  IF x > Len(candidates) THEN [grid |-> grid, valid_candidates |-> valid_candidates]
  ELSE LET p == is_valid_placement(grid, row, col, candidates[x][1])
       IN FilterFrom(p.grid, candidates,
                     IF p.result THEN Append(valid_candidates, candidates[x])
                     ELSE valid_candidates,
                     row, col, x + 1)

\* max(valid_candidates, key=lambda x: x[1]): the first of the largest
MaxByConf(cands) ==
  LET x == CHOOSE y \in 1..Len(cands) :
             /\ \A z \in 1..Len(cands) : cands[z][2] <= cands[y][2]
             /\ \A z \in 1..(y - 1) : cands[z][2] < cands[y][2]
  IN cands[x]

\* reassess_conflicted_digit choosing among all candidates, the rule filter
\* left out
reassess_conflicted_digit_Unfiltered(current_grid, row, col, easy, template, enhanced) ==
  LET candidates == Candidates(easy, template, enhanced)
  IN IF candidates # <<>>
     THEN LET best == MaxByConf(candidates)
          IN [grid |-> current_grid, digit |-> best[1], confidence |-> best[2],
              sources |-> <<best[3]>>]
     ELSE [grid |-> current_grid, digit |-> 0, confidence |-> 0,
           sources |-> <<"rule_validation">>]

\* [grid, digit, confidence, sources]: current_grid as the call leaves it
\* and the triple it returns
reassess_conflicted_digit(current_grid, row, col, easy, template, enhanced) ==
  LET f == FilterFrom(current_grid, Candidates(easy, template, enhanced),
                      <<>>, row, col, 1)
  IN IF f.valid_candidates # <<>>
     THEN LET best == MaxByConf(f.valid_candidates)
          IN [grid |-> f.grid, digit |-> best[1], confidence |-> best[2],
              sources |-> <<best[3]>>]
     ELSE [grid |-> f.grid, digit |-> 0, confidence |-> 0,
           sources |-> <<"rule_validation">>]

\* POST /solve: solve_sudoku calls ocr_processor.process_image, which runs
\* the first pass of process_cells and enters validate_and_reassess:
\* current_grid, conflicts and original_conflicts
CallSolveSudoku ==
  /\ op' = "solve_sudoku"
  /\ pc = "idle"
  /\ \E g \in OcrGrids :
       \E low \in {L \in SUBSET LowCells(g) : Cardinality(L) <= MaxLow} :
         /\ detections' = FirstPass(g, low)
         /\ first_pass' = detections'
         /\ LET f == find_sudoku_conflicts(DigitsOf(detections'))
            IN /\ heap' = [Heap0 EXCEPT !.current_grid = f.grid]
               /\ conflicts' = f.conflicts
               /\ original_conflicts' = f.conflicts
  /\ idx' = 1
  /\ pc' = "reassess" /\ calls' = 1
  /\ UNCHANGED <<arg, first, solverVars, out, validation, self_conflicts, ocr_result>>

\* the test with `<=` in the place of `<`
ShouldReassess_AtMost(detection) == detection.confidence <= REASSESS_THRESHOLD

\* if detection.confidence < 0.8
ShouldReassess(detection) == detection.confidence < REASSESS_THRESHOLD

\* one iteration of `for conflict in conflicts`
Reassess ==
  /\ pc = "reassess" /\ idx <= Len(conflicts)
  /\ LET row == conflicts[idx].row
         col == conflicts[idx].col
         digit == conflicts[idx].value
         detection == detections[row + 1][col + 1]
     IN IF ShouldReassess(detection)
        THEN \E easy \in EasyOutputs, template \in TemplateOutputs,
                enhanced \in EnhancedOutputs :
               LET r == reassess_conflicted_digit(heap.current_grid, row, col,
                                                  easy, template, enhanced)
               IN IF r.digit # digit
                  THEN /\ detections' =
                            [detections EXCEPT ![row + 1][col + 1] =
                               [digit |-> r.digit, confidence |-> r.confidence,
                                sources |-> r.sources, position |-> <<row, col>>]]
                       /\ heap' = [heap EXCEPT
                                     !.current_grid = Put(r.grid, row, col, r.digit)]
                  ELSE /\ detections' = detections
                       /\ heap' = [heap EXCEPT !.current_grid = r.grid]
        ELSE UNCHANGED <<detections, heap>>
  /\ idx' = idx + 1
  /\ UNCHANGED <<pc, callVars, solverVars, out, validation, first_pass, conflicts,
                 original_conflicts, self_conflicts, ocr_result>>

----------------------------------------------------------------------------
(* OCRProcessor.process_image, after process_cells *)

\* (i, j) in the order of the two enumerate loops
AllCells == [k \in 1..81 |-> <<(k - 1) \div 9, (k - 1) % 9>>]

\* if detection.confidence < 0.7
UNCERTAIN_THRESHOLD == 700

\* "valid_puzzle": len(given_positions) >= 17
MIN_CLUES == 17

given_positions_of(dets) ==
  LET Given(p) == dets[p[1] + 1][p[2] + 1].digit > 0
  IN SelectSeq(AllCells, Given)

uncertain_cells_of(dets) ==
  LET Uncertain(p) == /\ dets[p[1] + 1][p[2] + 1].digit > 0
                      /\ dets[p[1] + 1][p[2] + 1].confidence < UNCERTAIN_THRESHOLD
  IN SelectSeq(AllCells, Uncertain)

\* validate_and_reassess returns detections, original_conflicts; process_cells
\* stores self.validation_conflicts; process_image builds original_grid (the
\* object heap.grid) and the result dict
ProcessImageReturn ==
  /\ pc = "reassess" /\ idx > Len(conflicts)
  /\ self_conflicts' = original_conflicts
  /\ heap' = [heap EXCEPT !.grid = DigitsOf(detections)]
  /\ ocr_result' =
       [given_positions |-> given_positions_of(detections),
        uncertain_cells |-> uncertain_cells_of(detections),
        validation_conflicts |-> self_conflicts',
        valid_puzzle |-> Len(given_positions_of(detections)) >= MIN_CLUES,
        unique_solution |-> FALSE]
  /\ pc' = "ocr_done"
  /\ UNCHANGED <<callVars, solverVars, out, validation, first_pass, detections,
                 conflicts, idx, original_conflicts>>

----------------------------------------------------------------------------
(* solve_sudoku of main.py, after process_image *)

\* validation_result = sudoku_validator.validate_ocr_result(detected_grid),
\* detected_grid being ocr_result["original_grid"]
EndpointValidate ==
  /\ pc = "ocr_done"
  /\ StartValidateOcrResult(heap)
  /\ UNCHANGED <<callVars, steps, ceiling, out, ocrVars>>

\* SudokuResult(...)
SudokuResult(h, solved_grid) ==
  [original_grid |-> h.grid,
   solved_grid |-> solved_grid,
   given_positions |-> ocr_result.given_positions,
   uncertain_cells |-> ocr_result.uncertain_cells,
   validation_conflicts |-> ocr_result.validation_conflicts,
   valid_puzzle |-> validation.is_valid,
   unique_solution |-> (solved_grid # NoGrid)]

\* if validation_result['is_valid'] and validation_result['solvable']:
\* solution_grid = [row[:] for row in detected_grid]; sudoku_solver.solve(...)
\* -- otherwise solved_grid stays None and the result is returned
EndpointSolve ==
  /\ pc = "validated" /\ op = "solve_sudoku"
  /\ IF validation.is_valid /\ validation.solvable
     THEN /\ heap' = [heap EXCEPT !.solution_grid = CopyGrid(heap.grid)]
          /\ stack' = <<NewFrame(heap'.solution_grid, FALSE)>>
          /\ ref' = "solution_grid" /\ ret' = "none" /\ visits' = 1
          /\ pc' = "solve"
          /\ out' = out
     ELSE /\ out' = SudokuResult(heap, NoGrid)
          /\ pc' = "done"
          /\ UNCHANGED <<heap, stack, ref, ret, visits>>
  /\ UNCHANGED <<callVars, steps, ceiling, validation, ocrVars>>

\* sudoku_solver.solve(solution_grid) returned: solved_grid = solution_grid
\* when it returned True; return result
EndpointReturn ==
  /\ pc = "solve" /\ op = "solve_sudoku" /\ ref = "solution_grid"
  /\ stack = <<>> /\ ret # "none"
  /\ out' = SudokuResult(heap, IF ret = "True" THEN heap.solution_grid ELSE NoGrid)
  /\ pc' = "done"
  /\ UNCHANGED <<callVars, heap, solverVars, validation, ocrVars>>

----------------------------------------------------------------------------
(* main() of sudoku_solver.py: the 38-clue scenario *)

\* validation = validator.validate_ocr_result(detected_grid)
CallMain ==
  /\ op' = "main"
  /\ pc = "idle"
  /\ arg' = Puzzle38
  /\ StartValidateOcrResult([Heap0 EXCEPT !.grid = Puzzle38])
  /\ calls' = 1
  /\ UNCHANGED <<steps, ceiling, first, out, ocrVars>>

\* if validation['solvable']: solution_grid = [row[:] for row in detected_grid]
\* and solver.solve(solution_grid) -- else "Puzzle is not solvable"
MainSolve ==
  /\ pc = "validated" /\ op = "main"
  /\ IF validation.solvable
     THEN /\ heap' = [heap EXCEPT !.solution_grid = CopyGrid(heap.grid)]
          /\ stack' = <<NewFrame(heap'.solution_grid, FALSE)>>
          /\ ref' = "solution_grid" /\ ret' = "none" /\ visits' = 1
          /\ pc' = "solve"
          /\ out' = out
     ELSE /\ out' = [solved |-> FALSE]
          /\ pc' = "done"
          /\ UNCHANGED <<heap, stack, ref, ret, visits>>
  /\ UNCHANGED <<callVars, steps, ceiling, validation, ocrVars>>

\* if solver.solve(solution_grid): "PUZZLE SOLVED" -- else "Could not solve"
MainReturn ==
  /\ pc = "solve" /\ op = "main" /\ ref = "solution_grid"
  /\ stack = <<>> /\ ret # "none"
  /\ out' = [solved |-> (ret = "True")]
  /\ pc' = "done"
  /\ UNCHANGED <<callVars, heap, solverVars, validation, ocrVars>>

----------------------------------------------------------------------------
(* The system *)

Init ==
  /\ pc = "idle" /\ op = "none" /\ arg = NoGrid /\ heap = Heap0
  /\ ref = "grid" /\ stack = <<>> /\ ret = "none" /\ visits = 0
  /\ steps = <<>> /\ ceiling = MAX_ITERATIONS /\ first = None /\ calls = 0 /\ out = None
  /\ validation = None /\ first_pass = <<>> /\ detections = <<>>
  /\ conflicts = <<>> /\ idx = 1 /\ original_conflicts = <<>>
  /\ self_conflicts = <<>> /\ ocr_result = None

Next ==
  \/ CallSolve
  \/ SolveTry
  \/ SolveFull
  \/ SolveReturnTrue
  \/ SolveBacktrack
  \/ SolveDone
  \/ CallValidatePuzzle
  \/ CallFindConflicts
  \/ CallSolveWithSteps
  \/ SolveWithStepsDone
  \/ CallValidateOcrResult
  \/ ValidateOcrResultReturn
  \/ CallSolveSudoku
  \/ Reassess
  \/ ProcessImageReturn
  \/ EndpointValidate
  \/ EndpointSolve
  \/ EndpointReturn
  \/ CallMain
  \/ MainSolve
  \/ MainReturn

Spec == Init /\ [][Next]_vars

----------------------------------------------------------------------------
(* solve() on the grid of 81 zeros, run to its end                         *)

CallSolveEmpty ==
  /\ op' = "solve"
  /\ pc = "idle"
  /\ arg' = EmptyGrid
  /\ calls' = 1
  /\ first' = None
  /\ heap' = [Heap0 EXCEPT !.grid = arg']
  /\ stack' = <<NewFrame(arg', FALSE)>>
  /\ pc' = "solve" /\ ref' = "grid"
  /\ ret' = "none" /\ visits' = 1
  /\ UNCHANGED <<steps, ceiling, out, validation, ocrVars>>

NextEmpty ==
  \/ CallSolveEmpty
  \/ SolveTry
  \/ SolveFull
  \/ SolveReturnTrue
  \/ SolveBacktrack
  \/ SolveDone

\* the position of the running call: every step changes it
position == <<pc, stack, ret, visits>>

\* a sequential program: a step that can be taken is taken
LiveEmpty == Init /\ [][NextEmpty]_vars /\ WF_position(NextEmpty)

----------------------------------------------------------------------------
(* A grid on which solve() makes 100,178 invocations before it returns     *)
(* True: the input of the runs that look at the number of invocations.     *)

HardGrid ==
  << <<0, 0, 0, 0, 7, 4, 0, 0, 0>>,
     <<0, 0, 0, 0, 0, 1, 0, 0, 0>>,
     <<0, 0, 0, 0, 0, 0, 0, 0, 5>>,
     <<5, 6, 7, 0, 0, 0, 0, 0, 0>>,
     <<2, 8, 0, 0, 0, 0, 9, 5, 0>>,
     <<0, 0, 0, 0, 0, 0, 2, 0, 6>>,
     <<0, 0, 0, 4, 0, 8, 0, 1, 0>>,
     <<0, 0, 0, 0, 0, 5, 0, 0, 9>>,
     <<0, 0, 0, 1, 9, 0, 0, 0, 0>> >>

\* solver.solve(grid) on HardGrid
CallSolveHard ==
  /\ op' = "solve"
  /\ pc = "idle"
  /\ arg' = HardGrid
  /\ calls' = 1
  /\ first' = None
  /\ heap' = [Heap0 EXCEPT !.grid = arg']
  /\ stack' = <<NewFrame(arg', FALSE)>>
  /\ pc' = "solve" /\ ref' = "grid"
  /\ ret' = "none" /\ visits' = 1
  /\ UNCHANGED <<steps, ceiling, out, validation, ocrVars>>

NextHard ==
  \/ CallSolveHard
  \/ SolveTry
  \/ SolveFull
  \/ SolveReturnTrue
  \/ SolveBacktrack
  \/ SolveDone

SpecHard == Init /\ [][NextHard]_vars

----------------------------------------------------------------------------
(* The rules of the puzzle, stated on their own for the properties below *)

BoxCells(u) == {<<3 * (u \div 3) + a, 3 * (u % 3) + b>> : a \in 0..2, b \in 0..2}

\* every row, every column and every 3x3 box is a permutation of 1..9
Solved(grid) ==
  \A u \in N :
    /\ {Cell(grid, u, c) : c \in N} = 1..9
    /\ {Cell(grid, r, u) : r \in N} = 1..9
    /\ {Cell(grid, p[1], p[2]) : p \in BoxCells(u)} = 1..9

\* the other cells of the row, the column and the box of (r, c)
Peers(r, c) ==
  {p \in N \X N :
     /\ p # <<r, c>>
     /\ \/ p[1] = r
        \/ p[2] = c
        \/ (p[1] \div 3 = r \div 3 /\ p[2] \div 3 = c \div 3)}

\* d occurs in the row, the column or the box of (r, c), (r, c) apart
Occurs(grid, r, c, d) == \E p \in Peers(r, c) : Cell(grid, p[1], p[2]) = d

\* the cell (r, c) holds a digit that another cell of its row, column or box
\* holds too
HasDup(grid, r, c) == Cell(grid, r, c) # 0 /\ Occurs(grid, r, c, Cell(grid, r, c))

NoConflict(grid) == \A r \in N, c \in N : ~HasDup(grid, r, c)

\* every cell that is nonzero in `given` holds the same value in grid
KeepsClues(given, grid) ==
  \A r \in N, c \in N : Cell(given, r, c) # 0 => Cell(grid, r, c) = Cell(given, r, c)

----------------------------------------------------------------------------
(* The properties *)

\* C1 (as claimed): whenever solve() returns True, for any input grid (the
\* given digits may conflict, the grid may have no empty cell), every row,
\* every column and every box of the grid it leaves is a permutation of 1..9.
C1_ReportedSolvedIsSolved ==
  (pc = "done" /\ op = "solve" /\ out.result) => Solved(heap.grid)

\* C2: validate_puzzle and find_sudoku_conflicts leave the grid equal to its
\* value before the call, cell for cell, and a second call on the same grid
\* returns the same list as the first.
C2_ValidatorsLeaveGridAndRepeat ==
  (pc = "done" /\ op \in {"validate_puzzle", "find_sudoku_conflicts"}) =>
     /\ heap.grid = arg
     /\ calls = 2 => (first.grid = arg /\ first.out = out)

\* C2 witness: validate_puzzle was called twice on a grid with conflicts.
C2_Witness ==
  /\ pc = "done" /\ op = "validate_puzzle" /\ calls = 2
  /\ Len(out.errors) >= 2
  /\ \E r \in N, c \in N : HasDup(arg, r, c)

\* C3: in solve() and in solve_recursive(), a digit d is written into a cell
\* (r, c) only if the cell is empty and d does not occur in the row, the
\* column or the box of (r, c) at that moment; so after the write no other
\* cell of the row, column or box holds d.
C3_WritesObeyRules ==
  [][(pc = "solve" /\ pc' = "solve") =>
       \A r \in N, c \in N :
         (Cell(heap'[ref], r, c) # Cell(heap[ref], r, c) /\ Cell(heap'[ref], r, c) # 0) =>
            /\ Cell(heap[ref], r, c) = 0
            /\ ~Occurs(heap[ref], r, c, Cell(heap'[ref], r, c))
            /\ ~HasDup(heap'[ref], r, c)]_vars

\* C3 witness: the search is in a branch below a failed one (a digit was
\* written, undone, and another digit written after it).
C3_Witness ==
  /\ pc = "solve" /\ ret = "none" /\ Len(stack) >= 3
  /\ \E x \in 1..(Len(stack) - 1) :
       /\ stack[x].num > 1
       /\ Cell(heap[ref], stack[x].i, stack[x].j) = stack[x].num
       /\ Cell(arg, stack[x].i, stack[x].j) = 0

\* C4: solve() called on the grid of 81 zeros terminates, returns True and
\* leaves a grid without a zero in which every row, column and box is a
\* permutation of 1..9.
C4_EmptyGridIsSolved ==
  (IF pc = "solve" /\ op = "solve" THEN arg = EmptyGrid ELSE FALSE) ~>
     (IF pc = "done" /\ op = "solve" /\ arg = EmptyGrid
      THEN out.result /\ Solved(heap.grid) ELSE FALSE)

\* C4 witness: solve() has returned True on the empty grid, with backtracking.
C4_Witness ==
  /\ pc = "done" /\ op = "solve" /\ arg = EmptyGrid /\ calls = 1
  /\ out.result /\ Solved(heap.grid) /\ visits > 82

\* C5: for the 38-clue grid of main(), validate_ocr_result reports is_valid
\* and solvable, no errors and confidence 1.0 (17 seventeenths), and solve()
\* on a copy returns True with every row, column and box a permutation of
\* 1..9 and all 38 clues unchanged.
C5_Scenario38 ==
  (pc = "done" /\ op = "main") =>
     /\ validation.is_valid /\ validation.solvable
     /\ validation.errors = <<>> /\ validation.confidence = 17
     /\ out.solved
     /\ Solved(heap.solution_grid)
     /\ KeepsClues(Puzzle38, heap.solution_grid)

\* C5 witness: main() has finished on the grid of 38 clues.
C5_Witness ==
  /\ pc = "done" /\ op = "main" /\ arg = Puzzle38 /\ out.solved
  /\ Cardinality({p \in N \X N : Cell(arg, p[1], p[2]) # 0}) = 38
  /\ heap.solution_grid # arg

\* the valid completions of grid, enumerated cell by cell
RECURSIVE Completions(_)
Completions(grid) ==
  LET empty == {p \in N \X N : Cell(grid, p[1], p[2]) = 0}
  IN IF empty = {}
     THEN IF Solved(grid) THEN {grid} ELSE {}
     ELSE LET p == CHOOSE q \in empty : TRUE
          IN UNION {Completions(Put(grid, p[1], p[2], d)) :
                      d \in {e \in Digits : ~Occurs(grid, p[1], p[2], e)}}

\* a differs from b, and holds the smaller digit at the first cell (in
\* row-major order) where they differ
LexLess(a, b) ==
  \E k \in 0..80 :
    /\ Cell(a, k \div 9, k % 9) < Cell(b, k \div 9, k % 9)
    /\ \A m \in 0..(k - 1) : Cell(a, m \div 9, m % 9) = Cell(b, m \div 9, m % 9)

\* completions are enumerated for inputs with at most this many empty cells
MaxEnum == 6

EmptyCount(grid) == Cardinality({p \in N \X N : Cell(grid, p[1], p[2]) = 0})

\* C6: two runs of solve() on equal input grids return the same result and
\* leave equal grids; and when the input has no rule conflict and solve()
\* returns True, the grid it leaves is a valid completion of the input and
\* is smaller, in row-major order, than every other valid completion
\* (checked for the inputs with at most MaxEnum empty cells).
C6_DeterministicAndFirst ==
  (pc = "done" /\ op = "solve") =>
     /\ calls = 2 => (first.out = out /\ first.grid = heap.grid)
     /\ (NoConflict(arg) /\ out.result /\ EmptyCount(arg) <= MaxEnum) =>
           /\ heap.grid \in Completions(arg)
           /\ \A g \in Completions(arg) : g = heap.grid \/ LexLess(heap.grid, g)

\* C6 witness: the second run on an input with two valid completions has
\* returned the smaller one.
C6_Witness ==
  /\ pc = "done" /\ op = "solve" /\ calls = 2 /\ out.result
  /\ NoConflict(arg) /\ EmptyCount(arg) = 4
  /\ Cardinality(Completions(arg)) = 2
  /\ heap.grid # BaseGrid

\* C7: validate_ocr_result(g) and solve_with_steps(g) leave g equal to its
\* value before the call, whether or not g is valid or solvable.
C7_TestsLeaveCallersGrid ==
  (pc = "done" /\ op \in {"validate_ocr_result", "solve_with_steps"}) => heap.grid = arg

\* C7 witness: solve_with_steps has solved a copy of a grid with empty cells.
C7_Witness ==
  /\ pc = "done" /\ op = "solve_with_steps" /\ out.success
  /\ heap.working_grid # arg /\ heap.grid = arg /\ EmptyCount(arg) > 0

\* the detection of the first pass at (r, c), and the detection now
Before(r, c) == first_pass[r + 1][c + 1]

After(r, c) == detections[r + 1][c + 1]

\* the cells of the conflict report, as <<row, col, value>>
Reported(report) ==
  {<<report[x].row, report[x].col, report[x].value>> : x \in 1..Len(report)}

\* C8: in validate_and_reassess a cell's detection differs from its
\* first-pass detection only if the cell breaks a rule in the first-pass
\* grid and its first-pass confidence is below 0.8; a conflicting cell of
\* confidence 0.8 or more keeps its detection and is in the returned report;
\* and the report lists the conflicts of the first-pass grid, each once.
C8_ReassessOnlyDoubtedConflicts ==
  IF op = "solve_sudoku" /\ pc # "idle"
  THEN LET grid0 == DigitsOf(first_pass) IN
       /\ \A r \in N, c \in N :
            /\ After(r, c) # Before(r, c) =>
                 (HasDup(grid0, r, c) /\ Before(r, c).confidence < 800)
            /\ (HasDup(grid0, r, c) /\ Before(r, c).confidence >= 800) =>
                 /\ After(r, c) = Before(r, c)
                 /\ <<r, c, Cell(grid0, r, c)>> \in Reported(original_conflicts)
       /\ Reported(original_conflicts) =
            {<<r, c, Cell(grid0, r, c)>> : r \in N, c \in N} \cap
            {t \in N \X N \X Digits : HasDup(grid0, t[1], t[2])}
       /\ Len(original_conflicts) = Cardinality(Reported(original_conflicts))
       /\ pc \notin {"reassess"} => self_conflicts = original_conflicts
  ELSE TRUE

\* C8 witness: the pass is over; one conflicting cell was read again and
\* replaced, another of confidence 0.8 was kept and is in the report.
C8_Witness ==
  /\ op = "solve_sudoku" /\ pc = "ocr_done"
  /\ \E p \in N \X N, q \in N \X N :
       /\ After(p[1], p[2]) # Before(p[1], p[2])
       /\ After(p[1], p[2]).digit # 0
       /\ HasDup(DigitsOf(first_pass), q[1], q[2])
       /\ Before(q[1], q[2]).confidence >= 800
       /\ After(q[1], q[2]) = Before(q[1], q[2])
       /\ <<q[1], q[2], Before(q[1], q[2]).digit>> \in Reported(ocr_result.validation_conflicts)

\* C9 (as claimed): SudokuSolver.solve never makes more than 100,000
\* recursive invocations, on any input grid.
C9_SolveUnderCeiling ==
  (pc \in {"solve", "done"} /\ op = "solve") => visits <= 100000

\* C10 (as claimed): valid_puzzle is true exactly when the detected grid has
\* at least 17 nonzero cells and no rule conflict, in the dict process_image
\* returns and in the response of /solve.
C10_ValidPuzzleIff ==
  IF op = "solve_sudoku" /\ pc \in {"ocr_done", "solve", "validated", "done"}
  THEN LET wanted == (81 - EmptyCount(heap.grid) >= 17) /\ NoConflict(heap.grid) IN
       /\ ocr_result.valid_puzzle = wanted
       /\ pc = "done" => out.valid_puzzle = wanted
  ELSE TRUE

\* C10, for process_image alone
C10_ProcessImageValidPuzzle ==
  IF op = "solve_sudoku" /\ pc = "ocr_done"
  THEN ocr_result.valid_puzzle =
         ((81 - EmptyCount(heap.grid) >= 17) /\ NoConflict(heap.grid))
  ELSE TRUE

\* C10, for the response of /solve alone
C10_EndpointValidPuzzle ==
  IF op = "solve_sudoku" /\ pc = "done"
  THEN out.valid_puzzle =
         ((81 - EmptyCount(heap.grid) >= 17) /\ NoConflict(heap.grid))
  ELSE TRUE

\* C11 (as claimed): in the response of /solve, unique_solution is true
\* exactly when SudokuSolver.solve returned True on a copy of the detected
\* grid, and solved_grid is present exactly then.
C11_UniqueIffSolverSucceeded ==
  IF op = "solve_sudoku" /\ pc = "done"
  THEN /\ out.unique_solution <=> validation.solvable
       /\ (out.solved_grid # NoGrid) <=> validation.solvable
  ELSE TRUE

\* C12 (as claimed): uncertain_cells of the dict process_image returns is the
\* list, in row-major order, of all positions whose final detection has a
\* confidence below 0.7, the cells of digit 0 and confidence 0 included.
C12_UncertainCellsAreAllBelow ==
  IF op = "solve_sudoku" /\ pc = "ocr_done"
  THEN LET Below(p) == After(p[1], p[2]).confidence < 700
       IN ocr_result.uncertain_cells = SelectSeq(AllCells, Below)
  ELSE TRUE

----------------------------------------------------------------------------
(* OCRProcessor.is_cell_empty and ensemble_recognition                     *)
(*                                                                         *)
(* A cell image is known by its number of pixels (cell.size) and its       *)
(* number of pixels below 127 (black_pixels).  Confidences are in          *)
(* thousandths; the inputs are multiples of 100, so that * 1.1, * 1.2,     *)
(* * 0.9 and the average of two are whole numbers of thousandths.          *)

\* is_cell_empty with `<=` in the place of `<`
is_cell_empty_Inclusive(cell) ==
  IF cell.size = 0 THEN TRUE
  ELSE 1000 * cell.black_pixels <= 5 * cell.size

\* black_ratio = black_pixels / total_pixels; return black_ratio < 0.005
is_cell_empty(cell) ==
  IF cell.size = 0 THEN TRUE
  ELSE 1000 * cell.black_pixels < 5 * cell.size

\* results: ('easyocr', digit, conf) and ('template', digit, conf), each
\* only when its digit is > 0
EnsembleResults(easy, template) ==
  (IF easy[1] > 0 THEN << <<"easyocr", easy[1], easy[2]>> >> ELSE <<>>)
  \o (IF template[1] > 0 THEN << <<"template", template[1], template[2]>> >> ELSE <<>>)

\* digit_votes[d], confidence_sum[d] and sources_by_digit[d]
DigitVotes(results, d) == Len(SelectSeq(results, LAMBDA r : r[2] = d))

RECURSIVE ConfidenceSum(_, _)
ConfidenceSum(results, d) ==
  IF results = <<>> THEN 0
  ELSE (IF Head(results)[2] = d THEN Head(results)[3] ELSE 0)
       + ConfidenceSum(Tail(results), d)

RECURSIVE SourcesByDigit(_, _)
SourcesByDigit(results, d) ==
  IF results = <<>> THEN <<>>
  ELSE (IF Head(results)[2] = d THEN <<Head(results)[1]>> ELSE <<>>)
       \o SourcesByDigit(Tail(results), d)

\* BestVoted with the key x[1] alone: ties in votes go to the first digit
BestVoted_VotesOnly(results) ==
  LET Less(d, e) == DigitVotes(results, d) < DigitVotes(results, e)
      x == CHOOSE y \in 1..Len(results) :
             /\ \A z \in 1..Len(results) : ~Less(results[y][2], results[z][2])
             /\ \A z \in 1..(y - 1) : Less(results[z][2], results[y][2])
  IN results[x][2]

\* max(digit_votes.items(), key=lambda x: (x[1], confidence_sum[x[0]]))[0]:
\* the first digit, in the order the dict received them, of the largest key
BestVoted(results) ==
  LET Less(d, e) ==
        \/ DigitVotes(results, d) < DigitVotes(results, e)
        \/ /\ DigitVotes(results, d) = DigitVotes(results, e)
           /\ ConfidenceSum(results, d) < ConfidenceSum(results, e)
      x == CHOOSE y \in 1..Len(results) :
             /\ \A z \in 1..Len(results) : ~Less(results[y][2], results[z][2])
             /\ \A z \in 1..(y - 1) : Less(results[z][2], results[y][2])
  IN results[x][2]

Min(a, b) == IF a < b THEN a ELSE b

\* ensemble_recognition trusting easyocr from confidence 0.6 on (>= for >)
ensemble_recognition_AtLeast(cell, easy, template, enhanced) ==
  IF is_cell_empty(cell)
  THEN [digit |-> 0, confidence |-> 1000, sources |-> <<"empty_detection">>]
  ELSE
    LET results == EnsembleResults(easy, template) IN
    IF results = <<>>
    THEN IF cell.size > 0 /\ 1000 * cell.black_pixels > 5 * cell.size /\ enhanced[1] > 0
         THEN [digit |-> enhanced[1], confidence |-> enhanced[2],
               sources |-> <<"enhanced_recovery">>]
         ELSE [digit |-> 0, confidence |-> 0, sources |-> <<"no_detection">>]
    ELSE IF results[1][1] = "easyocr" /\ results[1][3] >= 600
    THEN [digit |-> results[1][2],
          confidence |-> Min(990, (results[1][3] * 11) \div 10),
          sources |-> <<"easyocr">>]
    ELSE
      LET best_digit == BestVoted(results)
          vote_count == DigitVotes(results, best_digit)
          confidence_sum == ConfidenceSum(results, best_digit)
      IN [digit |-> best_digit,
          confidence |-> IF vote_count >= 2
                         THEN Min(990, (confidence_sum * 12) \div (10 * vote_count))
                         ELSE (confidence_sum * 9) \div 10,
          sources |-> SourcesByDigit(results, best_digit)]

\* ensemble_recognition(cell), given what the three recognizers return on
\* the cell: [digit, confidence, sources]
ensemble_recognition(cell, easy, template, enhanced) ==
  IF is_cell_empty(cell)
  THEN [digit |-> 0, confidence |-> 1000, sources |-> <<"empty_detection">>]
  ELSE
    LET results == EnsembleResults(easy, template) IN
    IF results = <<>>
    THEN IF cell.size > 0 /\ 1000 * cell.black_pixels > 5 * cell.size /\ enhanced[1] > 0
         THEN [digit |-> enhanced[1], confidence |-> enhanced[2],
               sources |-> <<"enhanced_recovery">>]
         ELSE [digit |-> 0, confidence |-> 0, sources |-> <<"no_detection">>]
    ELSE IF results[1][1] = "easyocr" /\ results[1][3] > 600
    THEN [digit |-> results[1][2],
          confidence |-> Min(990, (results[1][3] * 11) \div 10),
          sources |-> <<"easyocr">>]
    ELSE
      LET best_digit == BestVoted(results)
          vote_count == DigitVotes(results, best_digit)
          confidence_sum == ConfidenceSum(results, best_digit)
      IN [digit |-> best_digit,
          confidence |-> IF vote_count >= 2
                         THEN Min(990, (confidence_sum * 12) \div (10 * vote_count))
                         ELSE (confidence_sum * 9) \div 10,
          sources |-> SourcesByDigit(results, best_digit)]

\* the cell images: 20 x 20 and 100 x 100 pixels around the 0.5% boundary,
\* and the image of no pixel
CellImages ==
  {[black_pixels |-> 0, size |-> 0]}
    \cup {[black_pixels |-> b, size |-> 400] : b \in {0, 1, 2, 3, 100}}
    \cup {[black_pixels |-> b, size |-> 10000] : b \in {0, 49, 50, 51, 2500}}

\* what the recognizers return on a cell in the first pass: (0, 0.0) or a
\* digit with a confidence
EasyFirst == {<<0, 0>>} \cup ({1, 2} \X {500, 600, 700, 900})

TemplateFirst == {<<0, 0>>} \cup ({1, 2} \X {600, 800})

EnhancedFirst == {<<0, 0>>} \cup ({3} \X {400})

CellInputs ==
  [cell : CellImages, easy : EasyFirst, template : TemplateFirst,
   enhanced : EnhancedFirst]

\* a cell and the recognizers' answers on it are drawn
InitCell ==
  /\ pc = "cell" /\ op = "none" /\ arg \in CellInputs /\ heap = Heap0
  /\ ref = "grid" /\ stack = <<>> /\ ret = "none" /\ visits = 0
  /\ steps = <<>> /\ ceiling = MAX_ITERATIONS /\ first = None /\ calls = 0 /\ out = None
  /\ validation = None /\ first_pass = <<>> /\ detections = <<>>
  /\ conflicts = <<>> /\ idx = 1 /\ original_conflicts = <<>>
  /\ self_conflicts = <<>> /\ ocr_result = None

\* self.is_cell_empty(cell)
CallIsCellEmpty ==
  /\ pc = "cell"
  /\ pc' = "done" /\ op' = "is_cell_empty" /\ calls' = 1
  /\ out' = [result |-> is_cell_empty(arg.cell)]
  /\ UNCHANGED <<arg, first, heap, solverVars, validation, ocrVars>>

\* self.ensemble_recognition(cell)
CallEnsembleRecognition ==
  /\ pc = "cell"
  /\ pc' = "done" /\ op' = "ensemble_recognition" /\ calls' = 1
  /\ out' = ensemble_recognition(arg.cell, arg.easy, arg.template, arg.enhanced)
  /\ UNCHANGED <<arg, first, heap, solverVars, validation, ocrVars>>

NextCell ==
  \/ CallIsCellEmpty
  \/ CallEnsembleRecognition

SpecCell == InitCell /\ [][NextCell]_vars

\* C13: on a cell with pixels, is_cell_empty returns True exactly when the
\* pixels below 127 are strictly fewer than 0.5% of the cell's pixels; a
\* cell whose ratio is exactly 0.005 is not empty, so ensemble_recognition
\* does not return (0, 1.0, empty_detection) for it and its result is the
\* one the recognizers decide.
C13_EmptinessBoundary ==
  IF pc = "done" /\ op = "is_cell_empty"
  THEN arg.cell.size > 0 =>
         (out.result <=> 200 * arg.cell.black_pixels < arg.cell.size)
  ELSE IF pc = "done" /\ op = "ensemble_recognition"
  THEN /\ (arg.cell.size > 0 /\ 200 * arg.cell.black_pixels < arg.cell.size) =>
            out = [digit |-> 0, confidence |-> 1000, sources |-> <<"empty_detection">>]
       /\ 200 * arg.cell.black_pixels = arg.cell.size /\ arg.cell.size > 0 =>
            /\ out.sources # <<"empty_detection">>
            /\ (arg.easy[1] > 0 \/ arg.template[1] > 0) => out.digit > 0
            /\ (arg.easy[1] = 0 /\ arg.template[1] = 0) =>
                  out = [digit |-> 0, confidence |-> 0, sources |-> <<"no_detection">>]
  ELSE TRUE

\* C13 witness: ensemble_recognition has read a digit on a cell of 10,000
\* pixels of which exactly 50 are dark.
C13_Witness ==
  /\ pc = "done" /\ op = "ensemble_recognition"
  /\ arg.cell = [black_pixels |-> 50, size |-> 10000]
  /\ out.digit > 0 /\ out.sources = <<"easyocr">>

----------------------------------------------------------------------------
(* OCRProcessor.detect_grid                                                *)
(*                                                                         *)
(* A contour is known by cv2.contourArea(contour) and by the number of     *)
(* vertices of cv2.approxPolyDP(contour, 0.02 * peri, True).               *)

\* if len(approx) == 4 and area > 10000
MIN_GRID_AREA == 10000

\* DetectStep with max_area = area set before the test of the polygon
DetectStep_EagerMax(s, contour, k) ==
  IF contour.area > s.max_area
  THEN IF contour.vertices = 4 /\ contour.area > MIN_GRID_AREA
       THEN [max_area |-> contour.area, largest_contour |-> k]
       ELSE [max_area |-> contour.area, largest_contour |-> s.largest_contour]
  ELSE s

\* the body of `for contour in contours`, on the k-th contour:
\* [max_area, largest_contour] afterwards (largest_contour = 0 is None)
DetectStep(s, contour, k) ==
  IF contour.area > s.max_area
  THEN IF contour.vertices = 4 /\ contour.area > MIN_GRID_AREA
       THEN [max_area |-> contour.area, largest_contour |-> k]
       ELSE s
  ELSE s

RECURSIVE DetectLoop(_, _, _)
DetectLoop(s, contours, k) ==
  IF k > Len(contours) THEN s
  ELSE DetectLoop(DetectStep(s, contours[k], k), contours, k + 1)

\* detect_grid(image), given the contours cv2.findContours returns: the
\* input image and False, or the image warped by largest_contour and True
detect_grid(contours) ==
  LET s == DetectLoop([max_area |-> 0, largest_contour |-> 0], contours, 1)
  IN IF s.largest_contour = 0
     THEN [grid |-> "image", corners |-> 0, grid_detected |-> FALSE]
     ELSE [grid |-> "warped", corners |-> s.largest_contour, grid_detected |-> TRUE]

\* at most this many contours are found in an image
MaxContours == 3

ContourAreas == {0, 10000, 10001, 20000, 30000}

ContourVertices == {3, 4, 5}

RECURSIVE SeqsUpTo(_, _)
SeqsUpTo(S, n) ==
  IF n = 0 THEN {<<>>}
  ELSE LET shorter == SeqsUpTo(S, n - 1)
       IN shorter \cup {Append(q, x) : q \in {t \in shorter : Len(t) = n - 1}, x \in S}

ContourInputs == SeqsUpTo([area : ContourAreas, vertices : ContourVertices], MaxContours)

\* the contours of an image are drawn
InitGrid ==
  /\ pc = "image" /\ op = "none" /\ arg \in ContourInputs /\ heap = Heap0
  /\ ref = "grid" /\ stack = <<>> /\ ret = "none" /\ visits = 0
  /\ steps = <<>> /\ ceiling = MAX_ITERATIONS /\ first = None /\ calls = 0 /\ out = None
  /\ validation = None /\ first_pass = <<>> /\ detections = <<>>
  /\ conflicts = <<>> /\ idx = 1 /\ original_conflicts = <<>>
  /\ self_conflicts = <<>> /\ ocr_result = None

\* grid, grid_found = self.detect_grid(processed)
CallDetectGrid ==
  /\ pc = "image"
  /\ pc' = "done" /\ op' = "detect_grid" /\ calls' = 1
  /\ out' = detect_grid(arg)
  /\ UNCHANGED <<arg, first, heap, solverVars, validation, ocrVars>>

NextGrid == CallDetectGrid

SpecGrid == InitGrid /\ [][NextGrid]_vars

\* the k-th contour has a polygon of 4 vertices and an area above 10,000
Qualifies(contours, k) == contours[k].vertices = 4 /\ contours[k].area > 10000

\* C14: detect_grid reports grid_detected = true exactly when some contour
\* has a polygon of 4 vertices and an area above 10,000, and then warps by
\* a qualifying contour whose area no qualifying contour exceeds, whatever
\* larger contours that do not qualify come before or after it; otherwise
\* it returns the input image and grid_detected = false.
C14_DetectGridLargestQualifying ==
  IF pc = "done" /\ op = "detect_grid"
  THEN LET Q == {k \in 1..Len(arg) : Qualifies(arg, k)} IN
       /\ out.grid_detected <=> Q # {}
       /\ Q = {} => (out.grid = "image" /\ out.corners = 0)
       /\ Q # {} =>
            /\ out.grid = "warped"
            /\ out.corners \in Q
            /\ \A k \in Q : arg[k].area <= arg[out.corners].area
  ELSE TRUE

\* C14 witness: the grid was warped by the second contour, with a larger
\* contour that is no quadrilateral before it and another after it.
C14_Witness ==
  /\ pc = "done" /\ op = "detect_grid" /\ Len(arg) = 3
  /\ out.grid_detected /\ out.corners = 2
  /\ arg[1].vertices # 4 /\ arg[1].area > arg[2].area
  /\ arg[3].vertices # 4 /\ arg[3].area > arg[2].area

----------------------------------------------------------------------------
(* solve() on grids that break the caller's contract                       *)

\* values no cell may hold
BadValues == {-1, 10}

\* 9x9 grids with one cell outside 0..9
BadInputs ==
  {Put(g, PokeCell[1], PokeCell[2], v) :
     g \in {BlankAll(BaseGrid, B) : B \in SUBSET BlankCells} \cup {EmptyGrid},
     v \in BadValues}

CallSolveBad ==
  /\ op' = "solve"
  /\ pc = "idle"
  /\ \E g \in BadInputs : arg' = g
  /\ calls' = 1
  /\ first' = None
  /\ heap' = [Heap0 EXCEPT !.grid = arg']
  /\ stack' = <<NewFrame(arg', FALSE)>>
  /\ pc' = "solve" /\ ref' = "grid"
  /\ ret' = "none" /\ visits' = 1
  /\ UNCHANGED <<steps, ceiling, out, validation, ocrVars>>

NextBad ==
  \/ CallSolveBad
  \/ SolveTry
  \/ SolveFull
  \/ SolveReturnTrue
  \/ SolveBacktrack
  \/ SolveDone

SpecBad == Init /\ [][NextBad]_vars

\* every cell of grid holds a value of 0..9
InRange(grid) == \A r \in N, c \in N : Cell(grid, r, c) \in 0..9

\* C15 (as claimed): on a grid with a cell value outside 0..9, solve()
\* returns neither True nor False, and no value outside 0..9 is left in a
\* grid it reports solved.
C15_ContractViolationReported ==
  IF pc = "done" /\ op = "solve"
  THEN /\ ~InRange(arg) => ret \notin {"True", "False"}
       /\ out.result => InRange(heap.grid)
  ELSE TRUE

----------------------------------------------------------------------------
(* two invocations of process_image on one OCRProcessor                    *)

\* the invocations that run on the module-level ocr_processor
Invocations == {1, 2}

\* what the two first passes may read: BaseGrid with the poked cell read as
\* blank or as a digit that breaks a rule
TwoGrids == {Put(BaseGrid, PokeCell[1], PokeCell[2], v) : v \in {0, 1, 2}}

\* at most one rule-breaking cell is read with doubt
TwoLow(grid) == {{}} \cup {{c} : c \in ConflictCells(grid)}

\* `for conflict in conflicts` of validate_and_reassess from conflict x on:
\* the detections the loop can end with, over what the recognizers return
RECURSIVE ReassessFrom(_, _, _, _)
ReassessFrom(dets, current_grid, confl, x) ==
  IF x > Len(confl) THEN {dets}
  ELSE LET row == confl[x].row
           col == confl[x].col
           digit == confl[x].value
           detection == dets[row + 1][col + 1]
       IN IF ShouldReassess(detection)
          THEN LET after ==
                     {LET new == reassess_conflicted_digit(current_grid, row, col,
                                                         easy, template, enhanced)
                      IN IF new.digit # digit
                         THEN [dets |-> [dets EXCEPT ![row + 1][col + 1] =
                                           [digit |-> new.digit,
                                            confidence |-> new.confidence,
                                            sources |-> new.sources,
                                            position |-> <<row, col>>]],
                               grid |-> Put(new.grid, row, col, new.digit)]
                         ELSE [dets |-> dets, grid |-> new.grid] :
                        easy \in EasyOutputs, template \in TemplateOutputs,
                        enhanced \in EnhancedOutputs}
               IN UNION {ReassessFrom(s.dets, s.grid, confl, x + 1) : s \in after}
          ELSE ReassessFrom(dets, current_grid, confl, x + 1)

\* process_cells of invocation p: the first pass, validate_and_reassess and
\* self.validation_conflicts = validation_conflicts
ProcessCells(p) ==
  /\ op' = "process_image"
  /\ pc[p] = "idle"
  /\ \E g \in TwoGrids :
       \E low \in TwoLow(g) :
         LET results == FirstPass(g, low)
             f == find_sudoku_conflicts(DigitsOf(results))
         IN \E validated_results \in ReassessFrom(results, f.grid, f.conflicts, 1) :
              /\ first_pass' = [first_pass EXCEPT ![p] = results]
              /\ detections' = [detections EXCEPT ![p] = validated_results]
              /\ original_conflicts' = [original_conflicts EXCEPT ![p] = f.conflicts]
              /\ self_conflicts' = f.conflicts
  /\ pc' = [pc EXCEPT ![p] = "cells"]
  /\ UNCHANGED <<arg, heap, ref, stack, ret, visits, steps, ceiling, first, calls, out,
                 validation, conflicts, idx, ocr_result>>

\* process_image of invocation p after process_cells: the result dictionary,
\* with getattr(self, 'validation_conflicts', [])
BuildResult(p) ==
  /\ pc[p] = "cells"
  /\ ocr_result' =
       [ocr_result EXCEPT ![p] =
          [given_positions |-> given_positions_of(detections[p]),
           uncertain_cells |-> uncertain_cells_of(detections[p]),
           validation_conflicts |-> self_conflicts,
           valid_puzzle |-> Len(given_positions_of(detections[p])) >= MIN_CLUES,
           unique_solution |-> FALSE]]
  /\ pc' = [pc EXCEPT ![p] = "ocr_done"]
  /\ UNCHANGED <<op, arg, heap, ref, stack, ret, visits, steps, ceiling, first, calls,
                 out, validation, first_pass, detections, conflicts, idx,
                 original_conflicts, self_conflicts>>

InitTwo ==
  /\ pc = [p \in Invocations |-> "idle"] /\ op = "none" /\ arg = NoGrid
  /\ heap = Heap0 /\ ref = "grid" /\ stack = <<>> /\ ret = "none" /\ visits = 0
  /\ steps = <<>> /\ ceiling = MAX_ITERATIONS /\ first = None /\ calls = 0 /\ out = None
  /\ validation = None
  /\ first_pass = [p \in Invocations |-> <<>>]
  /\ detections = [p \in Invocations |-> <<>>]
  /\ conflicts = <<>> /\ idx = 1
  /\ original_conflicts = [p \in Invocations |-> <<>>]
  /\ self_conflicts = <<>>
  /\ ocr_result = [p \in Invocations |-> None]

NextTwo ==
  \/ \E p \in Invocations : ProcessCells(p)
  \/ \E p \in Invocations : BuildResult(p)

SpecTwo == InitTwo /\ [][NextTwo]_vars

\* C16 (as claimed): however two process_image invocations on one
\* OCRProcessor interleave, the validation_conflicts of each result are the
\* conflicts of that invocation's own grid before reassessment.
C16_ConflictsAreOwn ==
  \A p \in Invocations :
    pc[p] = "ocr_done" =>
      ocr_result[p].validation_conflicts = original_conflicts[p]

----------------------------------------------------------------------------
(* recursion depth of solve()                                               *)

\* the cells of a grid, the most solve() can have to fill
CELLS == 81

\* C17 (as claimed): the number of active solve frames, the initial call
\* counted, never exceeds 81.
C17_DepthAtMost81 ==
  (pc = "solve" /\ op # "solve_with_steps") => Len(stack) <= CELLS

\* C17 (amended): the number of active solve frames never exceeds 82: one
\* per filled cell and one for the invocation that finds no empty cell.
C17_DepthAtMost82 ==
  (pc = "solve" /\ op # "solve_with_steps") => Len(stack) <= CELLS + 1

\* on the all-empty grid, 82 frames are active when the last one finds the
\* grid full
C17_Witness ==
  /\ pc = "solve" /\ op = "solve" /\ arg = EmptyGrid
  /\ Len(stack) = CELLS + 1
  /\ ~HasEmpty(G)

----------------------------------------------------------------------------
(* solve() on grids without a rule conflict                                 *)

\* BaseGrid with 5 moved from (2,8) to (2,4) and (1,4) blank: no digit
\* occurs twice, and (1,4) can only hold the 3 that row 1 has at (1,8)
TightGrid == BlankAll(Put(BaseGrid, 2, 4, 5), {<<1, 4>>, <<2, 8>>})

\* TightGrid, and TightGrid with (0,0) or (1,8) blank as well
TightGrids == {BlankAll(TightGrid, B) : B \in SUBSET {<<0, 0>>, <<1, 8>>}}

\* the conflict-free grids passed to SudokuSolver.solve
SearchInputs == {g \in SolveInputs : NoConflict(g)} \cup TightGrids

CallSolveSearch ==
  /\ op' = "solve"
  /\ pc = "idle"
  /\ \E g \in SearchInputs : arg' = g
  /\ calls' = 1
  /\ first' = None
  /\ heap' = [Heap0 EXCEPT !.grid = arg']
  /\ stack' = <<NewFrame(arg', FALSE)>>
  /\ pc' = "solve" /\ ref' = "grid"
  /\ ret' = "none" /\ visits' = 1
  /\ UNCHANGED <<steps, ceiling, out, validation, ocrVars>>

NextSearch ==
  \/ CallSolveSearch
  \/ SolveTry
  \/ SolveFull
  \/ SolveReturnTrue
  \/ SolveBacktrack
  \/ SolveDone

\* a sequential program: a step that can be taken is taken
LiveSearch == Init /\ [][NextSearch]_vars /\ WF_position(NextSearch)

\* C18: on every grid with no rule conflict among its digits, solve()
\* terminates; it returns True only on a grid it has left without an empty
\* cell, and it returns False exactly when no assignment of 1..9 to the
\* empty cells makes every row, column and box duplicate-free (the latter
\* checked for the inputs with at most MaxEnum empty cells).
C18_SearchIsComplete ==
  (IF pc = "solve" /\ op = "solve" THEN NoConflict(arg) ELSE FALSE) ~>
     (IF pc = "done" /\ op = "solve"
      THEN /\ out.result => EmptyCount(heap.grid) = 0
           /\ EmptyCount(arg) <= MaxEnum =>
                (~out.result <=> Completions(arg) = {})
      ELSE FALSE)

\* C18 witness: solve() has returned False, after a recursive call, on a
\* conflict-free grid with three empty cells and no completion.
C18_Witness ==
  /\ pc = "done" /\ op = "solve" /\ ~out.result
  /\ NoConflict(arg) /\ EmptyCount(arg) = 3 /\ Completions(arg) = {}
  /\ visits > 1 /\ heap.grid = arg

----------------------------------------------------------------------------
(* what a reassessment leaves                                               *)

\* the candidates of cands that duplicate no digit of the row, column or box
\* of (row, col) in grid, the cell itself left out
RuleValid(grid, row, col, cands) ==
  {x \in 1..Len(cands) : ~Occurs(grid, row, col, cands[x][1])}

\* C19 (as claimed): a step of the reassessment loop on a conflict whose cell
\* has confidence < 0.8 leaves, for some outputs of the three recognizers,
\* the detection of the cell equal to (digit, confidence, [source]) of a
\* highest-confidence candidate that breaks no rule in the working grid,
\* also when that digit is the one the cell held, and the digit written into
\* the working grid; with no such candidate it leaves (0, 0.0,
\* ["rule_validation"]) and 0 in the working grid.
C19_ReassessOverwrites ==
  [][(IF pc = "reassess" /\ op = "solve_sudoku" /\ idx <= Len(conflicts)
      THEN ShouldReassess(detections[conflicts[idx].row + 1][conflicts[idx].col + 1])
      ELSE FALSE) =>
       LET row == conflicts[idx].row
           col == conflicts[idx].col
           left == detections'[row + 1][col + 1]
       IN \E easy \in EasyOutputs, template \in TemplateOutputs,
             enhanced \in EnhancedOutputs :
            LET cands == Candidates(easy, template, enhanced)
                valid == RuleValid(heap.current_grid, row, col, cands)
            IN IF valid = {}
               THEN /\ left.digit = 0 /\ left.confidence = 0
                    /\ left.sources = <<"rule_validation">>
                    /\ heap'.current_grid = Put(heap.current_grid, row, col, 0)
               ELSE \E x \in valid :
                      /\ \A y \in valid : cands[y][2] <= cands[x][2]
                      /\ left.digit = cands[x][1]
                      /\ left.confidence = cands[x][2]
                      /\ left.sources = <<cands[x][3]>>
                      /\ heap'.current_grid =
                           Put(heap.current_grid, row, col, cands[x][1])]_vars

----------------------------------------------------------------------------
(* the conflict report                                                      *)

\* another cell of the row, of the column, of the box of (r, c) holds the
\* value of (r, c)
RowDup(grid, r, c) == \E j \in N \ {c} : Cell(grid, r, j) = Cell(grid, r, c)

ColDup(grid, r, c) == \E i \in N \ {r} : Cell(grid, i, c) = Cell(grid, r, c)

BoxDup(grid, r, c) ==
  \E p \in N \X N :
    /\ p # <<r, c>>
    /\ p[1] \div 3 = r \div 3 /\ p[2] \div 3 = c \div 3
    /\ Cell(grid, p[1], p[2]) = Cell(grid, r, c)

\* the cells of grid that hold a duplicated digit, in row-major order
DupCells(grid) ==
  LET Dup(p) == HasDup(grid, p[1], p[2]) IN SelectSeq(AllCells, Dup)

\* C20: find_sudoku_conflicts returns, in row-major order, exactly one record
\* for each nonzero cell whose value another cell of its row, column or box
\* holds, and none for any other cell; the record carries the cell's row,
\* col and value, and its conflict_type is the first of row, column, box in
\* which the duplicate exists, never 'unknown'.
C20_ConflictsAreAllDuplicates ==
  (pc = "done" /\ op = "find_sudoku_conflicts") =>
     LET cells == DupCells(arg) IN
       /\ Len(out.conflicts) = Len(cells)
       /\ \A x \in 1..Len(cells) :
            LET r == cells[x][1]
                c == cells[x][2]
                rec == out.conflicts[x]
            IN /\ rec.row = r /\ rec.col = c /\ rec.value = Cell(arg, r, c)
               /\ rec.conflict_type \in {"row", "column", "box"}
               /\ rec.conflict_type =
                    IF RowDup(arg, r, c) THEN "row"
                    ELSE IF ColDup(arg, r, c) THEN "column" ELSE "box"

\* C20 witness: a report with a row conflict and with a column conflict on a
\* cell whose value is duplicated in its box too.
C20_Witness ==
  /\ pc = "done" /\ op = "find_sudoku_conflicts" /\ calls = 1
  /\ \E x \in 1..Len(out.conflicts) : out.conflicts[x].conflict_type = "row"
  /\ \E x \in 1..Len(out.conflicts) :
       /\ out.conflicts[x].conflict_type = "column"
       /\ BoxDup(arg, out.conflicts[x].row, out.conflicts[x].col)

----------------------------------------------------------------------------
(* the fusion of the recognizers' answers                                   *)

\* ensemble_recognition was called on a cell that is_cell_empty rejects
FusedCell ==
  /\ pc = "done" /\ op = "ensemble_recognition"
  /\ arg.cell.size > 0 /\ 200 * arg.cell.black_pixels >= arg.cell.size

\* C21: on a non-empty cell, when easyocr returns a digit with confidence
\* above 0.6, ensemble_recognition returns that digit with confidence
\* min(0.99, 1.1 x that confidence) and sources [easyocr], whatever the
\* template matcher returned; with easyocr confidence exactly 0.6 the
\* result is the vote's, not the short-circuit's (0.66, [easyocr]).
C21_EasyocrShortCircuit ==
  IF FusedCell
  THEN /\ (arg.easy[1] > 0 /\ arg.easy[2] > 600) =>
            out = [digit |-> arg.easy[1],
                   confidence |-> IF 11 * arg.easy[2] > 9900 THEN 990
                                  ELSE (11 * arg.easy[2]) \div 10,
                   sources |-> <<"easyocr">>]
       /\ (arg.easy[1] > 0 /\ arg.easy[2] = 600) =>
            ~(out.confidence = 660 /\ out.sources = <<"easyocr">>)
  ELSE TRUE

\* C21 witness: easyocr read 1 at 0.7 and the template matcher 2 at 0.8; the
\* result is (1, 0.77, [easyocr]).
C21_Witness ==
  /\ FusedCell
  /\ arg.easy = <<1, 700>> /\ arg.template = <<2, 800>>
  /\ out = [digit |-> 1, confidence |-> 770, sources |-> <<"easyocr">>]

\* the answer of one method alone, with the penalty of 0.9
Single(source, answer) ==
  [digit |-> answer[1], confidence |-> (9 * answer[2]) \div 10,
   sources |-> <<source>>]

\* C22: on a non-empty cell, when easyocr gave no candidate or one of
\* confidence at most 0.6, and some method gave a candidate, the result is
\* the digit with the most votes, a tie going to the larger summed
\* confidence: both methods on one digit give min(0.99, 1.2 x their average)
\* and both sources, otherwise the winner's 0.9 x confidence and its source
\* alone.  Whatever the branch, the confidence returned lies in [0, 1].
C22_VoteDecides ==
  IF pc = "done" /\ op = "ensemble_recognition"
  THEN /\ out.confidence >= 0 /\ out.confidence <= 1000
       /\ (FusedCell /\ (arg.easy[1] = 0 \/ arg.easy[2] <= 600)) =>
            LET easy == arg.easy
                template == arg.template
            IN /\ (easy[1] > 0 /\ template[1] = 0) => out = Single("easyocr", easy)
               /\ (easy[1] = 0 /\ template[1] > 0) => out = Single("template", template)
               /\ (easy[1] > 0 /\ template[1] = easy[1]) =>
                    out = [digit |-> easy[1],
                           confidence |-> IF 6 * (easy[2] + template[2]) > 9900
                                          THEN 990
                                          ELSE (6 * (easy[2] + template[2])) \div 10,
                           sources |-> <<"easyocr", "template">>]
               /\ (easy[1] > 0 /\ template[1] > 0 /\ template[1] # easy[1]) =>
                    /\ easy[2] > template[2] => out = Single("easyocr", easy)
                    /\ template[2] > easy[2] => out = Single("template", template)
                    /\ out \in {Single("easyocr", easy), Single("template", template)}
  ELSE TRUE

\* C22 witness: easyocr read 1 at 0.5 and the template matcher 2 at 0.6: one
\* vote each, and the larger confidence wins.
C22_Witness ==
  /\ FusedCell
  /\ arg.easy = <<1, 500>> /\ arg.template = <<2, 600>>
  /\ out = [digit |-> 2, confidence |-> 540, sources |-> <<"template">>]

----------------------------------------------------------------------------
(* OCRProcessor.enhanced_digit_recovery, as ensemble_recognition calls it   *)
(*                                                                         *)
(* easy and template are what recognize_digit_easyocr and                  *)
(* recognize_digit_template return on the equalized, thresholded cell.     *)

\* if digit > 0 and conf > 0.3
ACCEPT_THRESHOLD == 300

\* enhanced_digit_recovery asking the template matcher first
enhanced_digit_recovery_TemplateFirst(cell, easy, template) ==
  IF cell.size = 0 THEN <<0, 0>>
  ELSE IF template[1] > 0 /\ template[2] > ACCEPT_THRESHOLD THEN template
  ELSE IF easy[1] > 0 /\ easy[2] > ACCEPT_THRESHOLD THEN easy
  ELSE <<0, 0>>

enhanced_digit_recovery(cell, easy, template) ==
  IF cell.size = 0 THEN <<0, 0>>
  ELSE IF easy[1] > 0 /\ easy[2] > ACCEPT_THRESHOLD THEN easy
  ELSE IF template[1] > 0 /\ template[2] > ACCEPT_THRESHOLD THEN template
  ELSE <<0, 0>>

\* the branch of ensemble_recognition that calls enhanced_digit_recovery:
\* past the empty test, `if not results`, `if black_ratio > 0.005`
CallsEnhanced(cell, easy, template) ==
  /\ ~is_cell_empty(cell)
  /\ EnsembleResults(easy, template) = <<>>
  /\ cell.size > 0 /\ 1000 * cell.black_pixels > 5 * cell.size

\* what the recognizers return on the enhanced image
EasyEnhanced == {<<0, 0>>} \cup ({3} \X {200, 300, 400})

TemplateEnhanced == {<<0, 0>>} \cup ({4} \X {600})

\* the first pass finds no candidate, or easyocr one, or the template
\* matcher one
RecoverInputs ==
  [cell : CellImages, easy : {<<0, 0>>, <<1, 500>>},
   template : {<<0, 0>>, <<2, 600>>},
   easy_enhanced : EasyEnhanced, template_enhanced : TemplateEnhanced]

InitRecover ==
  /\ pc = "cell" /\ op = "none" /\ arg \in RecoverInputs /\ heap = Heap0
  /\ ref = "grid" /\ stack = <<>> /\ ret = "none" /\ visits = 0
  /\ steps = <<>> /\ ceiling = MAX_ITERATIONS /\ first = None /\ calls = 0 /\ out = None
  /\ validation = None /\ first_pass = <<>> /\ detections = <<>>
  /\ conflicts = <<>> /\ idx = 1 /\ original_conflicts = <<>>
  /\ self_conflicts = <<>> /\ ocr_result = None

\* self.ensemble_recognition(cell); visits counts the calls it makes to
\* enhanced_digit_recovery
CallEnsembleRecover ==
  /\ pc = "cell"
  /\ pc' = "done" /\ op' = "ensemble_recognition" /\ calls' = 1
  /\ visits' = IF CallsEnhanced(arg.cell, arg.easy, arg.template) THEN 1 ELSE 0
  /\ out' = ensemble_recognition(arg.cell, arg.easy, arg.template,
              enhanced_digit_recovery(arg.cell, arg.easy_enhanced,
                                      arg.template_enhanced))
  /\ UNCHANGED <<arg, first, heap, ref, stack, ret, steps, ceiling, validation, ocrVars>>

\* self.enhanced_digit_recovery(cell), called on its own
CallEnhancedRecovery ==
  /\ pc = "cell"
  /\ pc' = "done" /\ op' = "enhanced_digit_recovery" /\ calls' = 1
  /\ visits' = 1
  /\ out' = [result |-> enhanced_digit_recovery(arg.cell, arg.easy_enhanced,
                                               arg.template_enhanced)]
  /\ UNCHANGED <<arg, first, heap, ref, stack, ret, steps, ceiling, validation, ocrVars>>

NextRecover ==
  \/ CallEnsembleRecover
  \/ CallEnhancedRecovery

SpecRecover == InitRecover /\ [][NextRecover]_vars

\* the digit enhanced recovery owes: easyocr's on the enhanced image when
\* its confidence is above 0.3, else the template matcher's when above 0.3
Recovered ==
  IF arg.easy_enhanced[1] > 0 /\ arg.easy_enhanced[2] > 300 THEN arg.easy_enhanced
  ELSE IF arg.template_enhanced[1] > 0 /\ arg.template_enhanced[2] > 300
  THEN arg.template_enhanced
  ELSE <<0, 0>>

\* C23: ensemble_recognition calls enhanced_digit_recovery only on a cell
\* that is not empty, on which neither primary recognizer gave a candidate
\* and whose dark pixels are strictly more than 0.5%; the digit it returns
\* (easyocr's first, then the template matcher's, each only above 0.3) is
\* reported with sources [enhanced_recovery]; every other case without a
\* candidate gives (0, 0.0, [no_detection]).
C23_EnhancedIsLastResort ==
  IF pc = "done" /\ op = "ensemble_recognition"
  THEN LET dense == arg.cell.size > 0 /\ 200 * arg.cell.black_pixels > arg.cell.size
           nonempty == arg.cell.size > 0 /\ 200 * arg.cell.black_pixels >= arg.cell.size
           silent == arg.easy[1] = 0 /\ arg.template[1] = 0
       IN /\ visits = 1 => (nonempty /\ silent /\ dense)
          /\ (nonempty /\ silent /\ dense /\ Recovered[1] > 0) =>
               out = [digit |-> Recovered[1], confidence |-> Recovered[2],
                      sources |-> <<"enhanced_recovery">>]
          /\ (nonempty /\ silent /\ ~(dense /\ Recovered[1] > 0)) =>
               out = [digit |-> 0, confidence |-> 0, sources |-> <<"no_detection">>]
          /\ out.sources = <<"enhanced_recovery">> => visits = 1
  ELSE TRUE

\* C23 witness: on the enhanced image easyocr read 3 at 0.3 only, so the
\* template matcher's 4 at 0.6 is reported.
C23_Witness ==
  /\ pc = "done" /\ op = "ensemble_recognition" /\ visits = 1
  /\ arg.easy_enhanced = <<3, 300>> /\ arg.template_enhanced = <<4, 600>>
  /\ out = [digit |-> 4, confidence |-> 600, sources |-> <<"enhanced_recovery">>]

----------------------------------------------------------------------------
(* Cell extraction: extract_cells and extract_cells_geometric               *)
(*                                                                         *)
(* A grid image is known by its height and width and by the line groups    *)
(* analyze_grid_structure finds in it, each {center, thickness}.  A cell   *)
(* is known by the box <<y1, y2, x1, x2>> cut out of the grid, or is the   *)
(* white 20 x 20 cell the code makes when the box is empty.                *)

Max(a, b) == IF a > b THEN a ELSE b

\* np.ones((20, 20), dtype=np.uint8) * 255
WhiteCell == <<"white">>

\* if len(h_lines) < 8 or len(v_lines) < 8
MIN_LINE_GROUPS == 8

\* center_x += 6, center_y -= 6 and padding = max(6, ...)
BORDER_SHIFT == 6

\* structure['estimated_line_thickness']
RECURSIVE MaxThickness(_)
MaxThickness(groups) ==
  IF groups = <<>> THEN 1
  ELSE Max(Head(groups).thickness, MaxThickness(Tail(groups)))

estimated_line_thickness(h_groups, v_groups) ==
  Max(MaxThickness(h_groups), MaxThickness(v_groups))

\* sorted(...): insertion of each value into the sorted rest
RECURSIVE Insert(_, _)
Insert(x, s) ==
  IF s = <<>> THEN <<x>>
  ELSE IF x <= Head(s) THEN <<x>> \o s
  ELSE <<Head(s)>> \o Insert(x, Tail(s))

RECURSIVE sorted(_)
sorted(s) == IF s = <<>> THEN <<>> ELSE Insert(Head(s), sorted(Tail(s)))

\* the center of cell i along an axis of extract_cells, shifted inward in
\* the two outermost rows or columns on each side
center_of(i, cell_size) ==
  LET center == i * cell_size + cell_size \div 2
  IN IF i <= 1 THEN center + BORDER_SHIFT
     ELSE IF i >= 7 THEN center - BORDER_SHIFT
     ELSE center

\* extract_cells with the cell's center not shifted at the borders
extract_cells_NoShift(height, width) ==
  LET cell_height == height \div 9
      cell_width == width \div 9
      extract_height == (cell_height * 8) \div 10
      extract_width == (cell_width * 8) \div 10
  IN [p \in N \X N |->
        LET center_y == p[1] * cell_height + cell_height \div 2
            center_x == p[2] * cell_width + cell_width \div 2
            y1 == Max(0, center_y - extract_height \div 2)
            y2 == Min(height, center_y + extract_height \div 2)
            x1 == Max(0, center_x - extract_width \div 2)
            x2 == Min(width, center_x + extract_width \div 2)
        IN IF y2 <= y1 \/ x2 <= x1 THEN WhiteCell ELSE <<y1, y2, x1, x2>>]

\* extract_cells(grid): 9 equal bands, a window of 80% of the band around
\* each center
extract_cells(height, width) ==
  LET cell_height == height \div 9
      cell_width == width \div 9
      extract_height == (cell_height * 8) \div 10
      extract_width == (cell_width * 8) \div 10
  IN [p \in N \X N |->
        LET center_y == center_of(p[1], cell_height)
            center_x == center_of(p[2], cell_width)
            y1 == Max(0, center_y - extract_height \div 2)
            y2 == Min(height, center_y + extract_height \div 2)
            x1 == Max(0, center_x - extract_width \div 2)
            x2 == Min(width, center_x + extract_width \div 2)
        IN IF y2 <= y1 \/ x2 <= x1 THEN WhiteCell ELSE <<y1, y2, x1, x2>>]

\* the fallback of extract_cells_geometric: uniform division with padding
GeometricFallback(height, width, line_thickness) ==
  LET cell_height == height \div 9
      cell_width == width \div 9
      padding == Max(BORDER_SHIFT, line_thickness \div 2)
  IN [p \in N \X N |->
        LET y1 == Max(0, p[1] * cell_height + padding)
            y2 == Min(height, (p[1] + 1) * cell_height - padding)
            x1 == Max(0, p[2] * cell_width + padding)
            x2 == Min(width, (p[2] + 1) * cell_width - padding)
        IN IF y2 > y1 /\ x2 > x1 THEN <<y1, y2, x1, x2>> ELSE WhiteCell]

\* the sorted centers of an axis, with the edges added when no line is
\* within 5 pixels of them
Positions(groups, size) ==
  LET s == sorted([k \in 1..Len(groups) |-> groups[k].center])
      t == IF s[1] > 5 THEN <<0>> \o s ELSE s
  IN IF t[Len(t)] < size - 5 THEN Append(t, size - 1) ELSE t

\* the line-based branch of extract_cells_geometric
LineBased(height, width, h_groups, v_groups, line_thickness) ==
  LET h_positions == Positions(h_groups, height)
      v_positions == Positions(v_groups, width)
  IN [p \in N \X N |->
        IF p[1] < Len(h_positions) - 1 /\ p[2] < Len(v_positions) - 1
        THEN LET y1 == h_positions[p[1] + 1] + line_thickness \div 2 + 2
                 y2 == h_positions[p[1] + 2] - line_thickness \div 2 - 2
                 x1 == v_positions[p[2] + 1] + line_thickness \div 2 + 2
                 x2 == v_positions[p[2] + 2] - line_thickness \div 2 - 2
             IN IF y2 > y1 /\ x2 > x1 THEN <<y1, y2, x1, x2>> ELSE WhiteCell
        ELSE WhiteCell]

extract_cells_geometric(height, width, h_groups, v_groups) ==
  LET line_thickness == estimated_line_thickness(h_groups, v_groups)
  IN IF Len(h_groups) < MIN_LINE_GROUPS \/ Len(v_groups) < MIN_LINE_GROUPS
     THEN GeometricFallback(height, width, line_thickness)
     ELSE LineBased(height, width, h_groups, v_groups, line_thickness)

\* grid images of 450 and 900 pixels a side
GridSizes == {450, 900}

\* the line groups found along an axis of `size` pixels: the first n of the
\* ten lines of a regular grid, all of one thickness
LineGroups(size, n, thickness) ==
  [k \in 1..n |-> [center |-> Min((k - 1) * (size \div 9), size - 1),
                   thickness |-> thickness]]

GroupCounts == {0, 7, 8, 10}

LineThicknesses == {1, 4}

ExtractInputs ==
  {[height |-> h, width |-> w,
    h_groups |-> LineGroups(h, nh, t), v_groups |-> LineGroups(w, nv, t)] :
     h \in GridSizes, w \in GridSizes, nh \in GroupCounts, nv \in GroupCounts,
     t \in LineThicknesses}

InitExtract ==
  /\ pc = "grid" /\ op = "none" /\ arg \in ExtractInputs /\ heap = Heap0
  /\ ref = "grid" /\ stack = <<>> /\ ret = "none" /\ visits = 0
  /\ steps = <<>> /\ ceiling = MAX_ITERATIONS /\ first = None /\ calls = 0 /\ out = None
  /\ validation = None /\ first_pass = <<>> /\ detections = <<>>
  /\ conflicts = <<>> /\ idx = 1 /\ original_conflicts = <<>>
  /\ self_conflicts = <<>> /\ ocr_result = None

\* self.extract_cells(grid), which ends each cell with preprocess_cell
CallExtractCells ==
  /\ pc = "grid"
  /\ pc' = "done" /\ op' = "extract_cells" /\ calls' = 1
  /\ out' = [cells |-> extract_cells(arg.height, arg.width), preprocessed |-> TRUE]
  /\ UNCHANGED <<arg, first, heap, solverVars, validation, ocrVars>>

\* self.extract_cells_geometric(grid)
CallExtractCellsGeometric ==
  /\ pc = "grid"
  /\ pc' = "done" /\ op' = "extract_cells_geometric" /\ calls' = 1
  /\ out' = [cells |-> extract_cells_geometric(arg.height, arg.width,
                                               arg.h_groups, arg.v_groups),
             preprocessed |-> FALSE]
  /\ UNCHANGED <<arg, first, heap, solverVars, validation, ocrVars>>

\* process_image up to the cells: cells = self.extract_cells(grid)
CallProcessImageCells ==
  /\ pc = "grid"
  /\ pc' = "done" /\ op' = "process_image" /\ calls' = 1
  /\ out' = [cells |-> extract_cells(arg.height, arg.width), preprocessed |-> TRUE]
  /\ UNCHANGED <<arg, first, heap, solverVars, validation, ocrVars>>

NextExtract ==
  \/ CallExtractCells
  \/ CallExtractCellsGeometric
  \/ CallProcessImageCells

SpecExtract == InitExtract /\ [][NextExtract]_vars

\* structure analysis found at least 8 line groups on both axes
Structured ==
  Len(arg.h_groups) >= MIN_LINE_GROUPS /\ Len(arg.v_groups) >= MIN_LINE_GROUPS

\* C24 (as claimed): process_image extracts the cells line-based when
\* structure analysis finds at least 8 line groups on both axes and with
\* the uniform strategy of extract_cells otherwise; and the fallback that
\* extract_cells_geometric takes with fewer than 8 groups is that same
\* uniform strategy.
C24_OneSelectionRule ==
  IF pc = "done" /\ op = "process_image"
  THEN out.cells =
         IF Structured
         THEN LineBased(arg.height, arg.width, arg.h_groups, arg.v_groups,
                        estimated_line_thickness(arg.h_groups, arg.v_groups))
         ELSE extract_cells(arg.height, arg.width)
  ELSE IF pc = "done" /\ op = "extract_cells_geometric"
  THEN ~Structured => out.cells = extract_cells(arg.height, arg.width)
  ELSE TRUE

----------------------------------------------------------------------------
(* order_points of OCRProcessor.correct_perspective                         *)
(*                                                                         *)
(* A point is <<x, y>>; pts is the sequence of the 4 corners.              *)

\* np.argmin(v) and np.argmax(v): the first index of the least, of the
\* largest value
argmin(v) ==
  CHOOSE k \in 1..Len(v) :
    /\ \A m \in 1..Len(v) : v[k] <= v[m]
    /\ \A m \in 1..(k - 1) : v[m] > v[k]

argmax(v) ==
  CHOOSE k \in 1..Len(v) :
    /\ \A m \in 1..Len(v) : v[k] >= v[m]
    /\ \A m \in 1..(k - 1) : v[m] < v[k]

\* order_points with the difference taken as x - y
order_points_DiffXY(pts) ==
  LET s == [k \in 1..Len(pts) |-> pts[k][1] + pts[k][2]]
      diff == [k \in 1..Len(pts) |-> pts[k][1] - pts[k][2]]
  IN <<pts[argmin(s)], pts[argmin(diff)], pts[argmax(s)], pts[argmax(diff)]>>

\* rect: top-left, top-right, bottom-right, bottom-left; s = pts.sum(axis=1)
\* and diff = np.diff(pts, axis=1), which is y - x
order_points(pts) ==
  LET s == [k \in 1..Len(pts) |-> pts[k][1] + pts[k][2]]
      diff == [k \in 1..Len(pts) |-> pts[k][2] - pts[k][1]]
  IN <<pts[argmin(s)], pts[argmin(diff)], pts[argmax(s)], pts[argmax(diff)]>>

\* the coordinates of a corner
MaxCoord == 2

Points == (0..MaxCoord) \X (0..MaxCoord)

CornerInputs == Points \X Points \X Points \X Points

InitCorners ==
  /\ pc = "corners" /\ op = "none" /\ arg \in CornerInputs /\ heap = Heap0
  /\ ref = "grid" /\ stack = <<>> /\ ret = "none" /\ visits = 0
  /\ steps = <<>> /\ ceiling = MAX_ITERATIONS /\ first = None /\ calls = 0 /\ out = None
  /\ validation = None /\ first_pass = <<>> /\ detections = <<>>
  /\ conflicts = <<>> /\ idx = 1 /\ original_conflicts = <<>>
  /\ self_conflicts = <<>> /\ ocr_result = None

\* rect = order_points(corners) in correct_perspective
CallOrderPoints ==
  /\ pc = "corners"
  /\ pc' = "done" /\ op' = "order_points" /\ calls' = 1
  /\ out' = [rect |-> order_points(arg)]
  /\ UNCHANGED <<arg, first, heap, solverVars, validation, ocrVars>>

NextCorners == CallOrderPoints

SpecCorners == InitCorners /\ [][NextCorners]_vars

\* p is one of the corners, and no corner has a smaller (a larger) value
\* of x + y, of x - y
LeastSum(p) == \E k \in 1..4 : arg[k] = p /\ \A m \in 1..4 : p[1] + p[2] <= arg[m][1] + arg[m][2]

MostSum(p) == \E k \in 1..4 : arg[k] = p /\ \A m \in 1..4 : p[1] + p[2] >= arg[m][1] + arg[m][2]

LeastDiff(p) == \E k \in 1..4 : arg[k] = p /\ \A m \in 1..4 : p[1] - p[2] <= arg[m][1] - arg[m][2]

MostDiff(p) == \E k \in 1..4 : arg[k] = p /\ \A m \in 1..4 : p[1] - p[2] >= arg[m][1] - arg[m][2]

\* C25 (as claimed): the corner mapped to top-left has the minimum x + y,
\* to bottom-right the maximum x + y, to top-right the minimum x - y and
\* to bottom-left the maximum x - y.
C25_CornersAsClaimed ==
  (pc = "done" /\ op = "order_points") =>
     /\ LeastSum(out.rect[1]) /\ MostSum(out.rect[3])
     /\ LeastDiff(out.rect[2]) /\ MostDiff(out.rect[4])

\* C25 (amended): the corner mapped to top-left has the minimum x + y, to
\* bottom-right the maximum x + y, to top-right the maximum x - y (the
\* minimum y - x) and to bottom-left the minimum x - y (the maximum y - x).
C25_CornerOrder ==
  (pc = "done" /\ op = "order_points") =>
     /\ LeastSum(out.rect[1]) /\ MostSum(out.rect[3])
     /\ MostDiff(out.rect[2]) /\ LeastDiff(out.rect[4])

\* C25 witness: the corners of a square, given out of order, are ordered
\* top-left, top-right, bottom-right, bottom-left.
C25_Witness ==
  /\ pc = "done" /\ op = "order_points"
  /\ arg = << <<2, 2>>, <<0, 2>>, <<2, 0>>, <<0, 0>> >>
  /\ out.rect = << <<0, 0>>, <<2, 0>>, <<2, 2>>, <<0, 2>> >>

----------------------------------------------------------------------------
(* solve_with_steps with the ceiling as a parameter                         *)
(*                                                                         *)
(* A run that passes the ceiling of 100,000 carries 100,000 snapshots; the *)
(* runs below are those of the same code with a small ceiling in the place *)
(* of the literal, and with the literal itself.                            *)

\* the small ceilings
MaxCeiling == 3

Ceilings == (1..MaxCeiling) \cup {MAX_ITERATIONS}

InitCeiling ==
  /\ pc = "idle" /\ op = "none" /\ arg = NoGrid /\ heap = Heap0
  /\ ref = "grid" /\ stack = <<>> /\ ret = "none" /\ visits = 0
  /\ steps = <<>> /\ ceiling \in Ceilings /\ first = None /\ calls = 0
  /\ out = None /\ validation = None /\ first_pass = <<>> /\ detections = <<>>
  /\ conflicts = <<>> /\ idx = 1 /\ original_conflicts = <<>>
  /\ self_conflicts = <<>> /\ ocr_result = None

\* solver.solve(grid) on the grid solve_with_steps was given, after it
CallSolveAfterSteps ==
  /\ op' = "solve"
  /\ pc = "done" /\ op = "solve_with_steps"
  /\ arg' = arg
  /\ calls' = calls + 1
  /\ first' = [out |-> out, grid |-> heap.grid]
  /\ heap' = [Heap0 EXCEPT !.grid = arg']
  /\ stack' = <<NewFrame(arg', FALSE)>>
  /\ pc' = "solve" /\ ref' = "grid"
  /\ ret' = "none" /\ visits' = 1
  /\ UNCHANGED <<steps, ceiling, out, validation, ocrVars>>

NextCeiling ==
  \/ CallSolveWithSteps
  \/ SolveTry
  \/ SolveFull
  \/ SolveReturnTrue
  \/ SolveBacktrack
  \/ SolveWithStepsDone
  \/ CallSolveAfterSteps
  \/ SolveDone

SpecCeiling == InitCeiling /\ [][NextCeiling]_vars

\* C26: in a run of solve_with_steps with a given ceiling, a snapshot is
\* recorded for each invocation up to the ceiling and for none after it (the
\* steps list never has more entries than the ceiling); a run whose counter
\* passed the ceiling returns success = False, also on a solvable grid; and
\* a run whose counter stayed within the ceiling returns the success that
\* solve() returns on the same grid.
C26_CeilingAborts ==
  /\ (op = "solve_with_steps" /\ pc \in {"solve", "done"}) =>
        Len(steps) = IF visits <= ceiling THEN visits ELSE ceiling
  /\ (op = "solve_with_steps" /\ pc = "done") =>
        /\ out.iterations = visits /\ out.steps = steps
        /\ (visits > ceiling => ~out.success)
  /\ (op = "solve" /\ pc = "done" /\ first # None /\ first.out.iterations <= ceiling) =>
        first.out.success = out.result

\* C26 witness: solve_with_steps passed the ceiling and returned False, with
\* as many snapshots as the ceiling, on a grid that solve() then solved.
C26_Witness ==
  /\ op = "solve" /\ pc = "done" /\ first # None /\ out.result
  /\ first.out.iterations > ceiling /\ ~first.out.success
  /\ Len(first.out.steps) = ceiling
  /\ NoConflict(arg) /\ Solved(heap.grid)

----------------------------------------------------------------------------
(* what the search writes                                                   *)

\* C27: in every state of a solve() call and in the grid it leaves, each
\* cell that was nonzero in the input holds its input value; and a
\* solved_grid returned by /solve holds, at every position of
\* given_positions, the digit original_grid holds there.
C27_CluesAreKept ==
  /\ (op = "solve" /\ pc \in {"solve", "done"}) => KeepsClues(arg, heap.grid)
  /\ (op = "solve_sudoku" /\ pc = "solve" /\ ref = "solution_grid") =>
        KeepsClues(heap.grid, heap.solution_grid)
  /\ (IF op = "solve_sudoku" /\ pc = "done" THEN out.solved_grid # NoGrid ELSE FALSE) =>
        \A k \in 1..Len(out.given_positions) :
          LET p == out.given_positions[k]
          IN /\ Cell(out.original_grid, p[1], p[2]) # 0
             /\ Cell(out.solved_grid, p[1], p[2]) = Cell(out.original_grid, p[1], p[2])

\* C27 witness: solve() is backtracking: it has placed digits in the empty
\* cells and taken one back, and the clues are in place.
C27_Witness ==
  /\ op = "solve" /\ pc = "solve" /\ ret = "False" /\ Len(stack) >= 2
  /\ EmptyCount(arg) >= 3 /\ EmptyCount(heap.grid) < EmptyCount(arg)
  /\ \E r \in N, c \in N : Cell(arg, r, c) # 0
  /\ KeepsClues(arg, heap.grid)

----------------------------------------------------------------------------
(* the recursive calls of solve(), each taken as a call of its own          *)
(*                                                                         *)
(* self.solve(grid) inside solve() is a call of solve on the grid as it is *)
(* at that moment.  CallSolveNested starts that call afresh, with arg the  *)
(* grid the recursive invocation was entered with, so that what the        *)
(* invocation leaves can be compared with what it was given.               *)

\* the grid a recursive invocation has just been entered with
CallSolveNested ==
  /\ op' = "solve"
  /\ pc = "solve" /\ op = "solve" /\ ret = "none"
  /\ Len(stack) >= 2 /\ Top.num = 1
  /\ arg' = heap.grid
  /\ calls' = 1
  /\ first' = None
  /\ heap' = [Heap0 EXCEPT !.grid = arg']
  /\ stack' = <<NewFrame(arg', FALSE)>>
  /\ pc' = "solve" /\ ref' = "grid"
  /\ ret' = "none" /\ visits' = 1
  /\ UNCHANGED <<steps, ceiling, out, validation, ocrVars>>

\* solver.solve(grid) on a grid of SolveInputs or around TightGrid
CallSolveAny ==
  /\ op' = "solve"
  /\ pc = "idle"
  /\ \E g \in SolveInputs \cup TightGrids : arg' = g
  /\ calls' = 1
  /\ first' = None
  /\ heap' = [Heap0 EXCEPT !.grid = arg']
  /\ stack' = <<NewFrame(arg', FALSE)>>
  /\ pc' = "solve" /\ ref' = "grid"
  /\ ret' = "none" /\ visits' = 1
  /\ UNCHANGED <<steps, ceiling, out, validation, ocrVars>>

NextNested ==
  \/ CallSolveAny
  \/ CallSolveNested
  \/ SolveTry
  \/ SolveFull
  \/ SolveReturnTrue
  \/ SolveBacktrack
  \/ SolveDone

SpecNested == Init /\ [][NextNested]_vars

\* C28: whenever a call of solve(), the first or a recursive one, returns
\* False, the grid is cell for cell the grid the call was entered with.
C28_UndoOnFailure ==
  (op = "solve" /\ pc = "done" /\ ~out.result) => heap.grid = arg

\* C28 witness: a call of solve() has returned False after it placed digits
\* and reset them.
C28_Witness ==
  /\ op = "solve" /\ pc = "done" /\ ~out.result
  /\ visits >= 3 /\ EmptyCount(arg) >= 2 /\ heap.grid = arg

----------------------------------------------------------------------------
(* the grid validate_and_reassess leaves                                    *)

\* the loop `for conflict in conflicts` of validate_and_reassess is over
ReassessOver == pc # "reassess" \/ idx > Len(conflicts)

\* C29: in validate_and_reassess a cell that duplicates a digit of its row,
\* column or box is in the initial conflict list with the digit it holds;
\* once the loop is over its first-pass confidence is 0.8 or more, so that
\* with every initial conflict below 0.8 no rule conflict is left.
C29_ReassessLeavesNoNewConflict ==
  IF op = "solve_sudoku" /\ pc # "idle"
  THEN LET grid == DigitsOf(detections) IN
       /\ \A r \in N, c \in N :
            HasDup(grid, r, c) =>
              /\ <<r, c, Cell(grid, r, c)>> \in Reported(original_conflicts)
              /\ ReassessOver => Before(r, c).confidence >= REASSESS_THRESHOLD
       /\ ((\A x \in 1..Len(original_conflicts) :
              Before(original_conflicts[x].row,
                     original_conflicts[x].col).confidence < REASSESS_THRESHOLD)
           /\ ReassessOver) => NoConflict(grid)
  ELSE TRUE

\* C29 witness: the loop is over; a conflicting cell below 0.8 was read
\* again and changed, and cells of 0.8 or more still duplicate each other.
C29_Witness ==
  /\ op = "solve_sudoku" /\ pc = "ocr_done"
  /\ \E p \in N \X N, q \in N \X N :
       /\ HasDup(DigitsOf(first_pass), p[1], p[2])
       /\ Before(p[1], p[2]).confidence < REASSESS_THRESHOLD
       /\ After(p[1], p[2]).digit # Before(p[1], p[2]).digit
       /\ HasDup(DigitsOf(detections), q[1], q[2])

\* C29 witness: every initial conflict was below 0.8 and the loop has left a
\* grid without rule conflict.
C29_WitnessAllLow ==
  /\ op = "solve_sudoku" /\ pc = "ocr_done"
  /\ Len(original_conflicts) >= 2
  /\ \A x \in 1..Len(original_conflicts) :
       Before(original_conflicts[x].row,
              original_conflicts[x].col).confidence < REASSESS_THRESHOLD
  /\ NoConflict(DigitsOf(detections))

----------------------------------------------------------------------------
(* SudokuValidator.get_solving_hints                                        *)

\* the hint appended for the empty cell (i, j) with these candidates
Hint(i, j, candidates) ==
  IF Len(candidates) = 1
  THEN [position |-> <<i, j>>, digit |-> candidates[1],
        reason |-> "Only possible candidate", difficulty |-> "easy"]
  ELSE [position |-> <<i, j>>, candidates |-> candidates,
        reason |-> "Two possible candidates", difficulty |-> "medium"]

\* the two loops over i and j: the hints in row-major order
hints_of(grid) ==
  LET Hinted(p) == /\ Cell(grid, p[1], p[2]) = 0
                   /\ Len(get_candidates(grid, p[1], p[2])) \in {1, 2}
      cells == SelectSeq(AllCells, Hinted)
  IN [x \in 1..Len(cells) |->
        Hint(cells[x][1], cells[x][2],
             get_candidates(grid, cells[x][1], cells[x][2]))]

\* lambda x: len(x.get('candidates', [x['digit']])): the argument
\* [x['digit']] is evaluated before get is called, and x['digit'] raises
\* KeyError on a dict without the key 'digit'
KeyRaises(x) == "digit" \notin DOMAIN x

sort_key(x) ==
  IF "candidates" \in DOMAIN x THEN Len(x.candidates) ELSE Len(<<x.digit>>)

\* sorted(hints, key=...) is stable: the hints of key k in their order, for
\* k ascending
RECURSIVE SortedFrom(_, _)
SortedFrom(hints, k) ==
  IF k > 9 THEN <<>>
  ELSE LET HasKey(x) == sort_key(x) = k
       IN SelectSeq(hints, HasKey) \o SortedFrom(hints, k + 1)

\* [raised, hints]: the exception get_solving_hints ends with, or "none" and
\* the list it returns
get_solving_hints(grid) ==
  LET hints == hints_of(grid)
  IN IF \E x \in 1..Len(hints) : KeyRaises(hints[x])
     THEN [raised |-> "KeyError", hints |-> <<>>]
     ELSE [raised |-> "none", hints |-> SortedFrom(hints, 1)]

InitHints ==
  /\ pc = "hints" /\ op = "none" /\ arg \in SolveInputs /\ heap = Heap0
  /\ ref = "grid" /\ stack = <<>> /\ ret = "none" /\ visits = 0
  /\ steps = <<>> /\ ceiling = MAX_ITERATIONS /\ first = None /\ calls = 0 /\ out = None
  /\ validation = None /\ first_pass = <<>> /\ detections = <<>>
  /\ conflicts = <<>> /\ idx = 1 /\ original_conflicts = <<>>
  /\ self_conflicts = <<>> /\ ocr_result = None

\* validator.get_solving_hints(grid)
CallGetSolvingHints ==
  /\ pc = "hints"
  /\ pc' = "done" /\ op' = "get_solving_hints" /\ calls' = 1
  /\ heap' = [Heap0 EXCEPT !.grid = arg]
  /\ out' = get_solving_hints(arg)
  /\ UNCHANGED <<arg, first, solverVars, validation, ocrVars>>

NextHints == CallGetSolvingHints

SpecHints == InitHints /\ [][NextHints]_vars

\* the empty cells of grid with exactly n candidates, in row-major order
CellsWith(grid, n) ==
  LET Has(p) == /\ Cell(grid, p[1], p[2]) = 0
                /\ Len(get_candidates(grid, p[1], p[2])) = n
  IN SelectSeq(AllCells, Has)

\* C30: get_solving_hints returns normally on every grid, with one 'easy'
\* hint carrying the digit for each empty cell of exactly one candidate,
\* one 'medium' hint carrying both candidates for each empty cell of exactly
\* two, and every single-candidate hint before every two-candidate hint.
C30_HintsReturn ==
  (pc = "done" /\ op = "get_solving_hints") =>
     LET one == CellsWith(arg, 1)
         two == CellsWith(arg, 2)
     IN /\ out.raised = "none"
        /\ Len(out.hints) = Len(one) + Len(two)
        /\ \A x \in 1..Len(one) :
             /\ out.hints[x].difficulty = "easy"
             /\ out.hints[x].position = one[x]
             /\ out.hints[x].digit = get_candidates(arg, one[x][1], one[x][2])[1]
        /\ \A x \in 1..Len(two) :
             /\ out.hints[Len(one) + x].difficulty = "medium"
             /\ out.hints[Len(one) + x].position = two[x]
             /\ out.hints[Len(one) + x].candidates =
                  get_candidates(arg, two[x][1], two[x][2])

====
